---- MODULE Spec2Model ----
(***************************************************************************)
(* Board-game resolver of the BGG plugin: alias dictionary lookup, DDG+LLM *)
(* candidate extraction, the structured API client (V2 search, V1 search,  *)
(* ranked detail probes), the scraping client and the resolver that        *)
(* orchestrates them.                                                      *)
(*                                                                         *)
(* A Python str is a sequence of one-character strings, "" is << >>.       *)
(* The non-ASCII literals of the source are written in ASCII:              *)
(*   "词典" = "CIDIAN", "仅LLM" = "JIN_LLM", "网页抓取" = "WANGYE_ZHUAQU",  *)
(*   "网页搜索" = "WANGYE_SOUSUO", "→" = "->",                             *)
(*   "英文名：" = the one-token prefix "EN:", "中文名：" = "CN:",           *)
(*   " 桌游" = the one-token suffix "_ZHUOYOU".                            *)
(* A Chinese character is one token of a str: "山屋" = << "shan", "wu" >>,  *)
(*   "卡坦" = << "ka", "tan" >>, "/桌游登记" = "/" and "zhuo", "you",       *)
(*   "deng", "ji", "清空" = << "qing", "kong" >>, "删除" = "shan1", "chu2". *)
(* The texts the register command returns are written in pinyin.           *)
(***************************************************************************)
EXTENDS Integers, Sequences, FiniteSets, TLC

\* ------------------------------------------------------------------ bounds
MaxItems == 2       \* most items in one structured search response
MaxAnchors == 2     \* most anchors in one scraped search page
MaxLines == 2       \* most lines in one language-model response
MaxModels == 2      \* most models the host makes available

\* ------------------------------------------------------- python str helpers
IsSpace(c) == c \in {" ", "\n"}

RECURSIVE lstrip(_)
lstrip(s) == IF s # << >> /\ IsSpace(Head(s)) THEN lstrip(Tail(s)) ELSE s

RECURSIVE rstrip(_)
rstrip(s) ==
    IF s # << >> /\ IsSpace(s[Len(s)]) THEN rstrip(SubSeq(s, 1, Len(s) - 1)) ELSE s

\* str.strip()
strip(s) == rstrip(lstrip(s))

\* index of the first occurrence of the character sep in s, 0 when there is none
RECURSIVE FindChar(_, _, _)
FindChar(s, sep, i) ==
    IF i > Len(s) THEN 0
    ELSE IF s[i] = sep THEN i
    ELSE FindChar(s, sep, i + 1)

\* str.split(sep) for a one-character separator: keeps empty segments
RECURSIVE split(_, _)
split(s, sep) ==
    LET i == FindChar(s, sep, 1)
    IN  IF i = 0 THEN << s >>
        ELSE << SubSeq(s, 1, i - 1) >> \o split(SubSeq(s, i + 1, Len(s)), sep)

\* [f(x) for x in xs if p(x)] with f = strip and p = "strip(x) is non-empty"
RECURSIVE StripNonEmpty(_)
StripNonEmpty(xs) ==
    IF xs = << >> THEN << >>
    ELSE LET c == strip(Head(xs))
         IN  (IF c # << >> THEN << c >> ELSE << >>) \o StripNonEmpty(Tail(xs))

\* all sequences over S of length at most n
SeqsUpTo(S, n) == UNION {[1..k -> S] : k \in 0..n}

\* ------------------------------------------------------------ str.lower()
Upper == << "A", "B", "C", "D", "E", "F", "G", "H", "I", "J", "K", "L", "M",
            "N", "O", "P", "Q", "R", "S", "T", "U", "V", "W", "X", "Y", "Z" >>
Lowers == << "a", "b", "c", "d", "e", "f", "g", "h", "i", "j", "k", "l", "m",
             "n", "o", "p", "q", "r", "s", "t", "u", "v", "w", "x", "y", "z" >>

LowerChar(c) ==
    IF \E i \in 1..Len(Upper) : Upper[i] = c
    THEN Lowers[CHOOSE i \in 1..Len(Upper) : Upper[i] = c]
    ELSE c

lower(s) == [i \in 1..Len(s) |-> LowerChar(s[i])]

\* s.startswith(p)
startswith(s, p) == Len(p) <= Len(s) /\ SubSeq(s, 1, Len(p)) = p

\* sub in s
contains(s, sub) ==
    \E i \in 1..(Len(s) - Len(sub) + 1) : SubSeq(s, i, i + Len(sub) - 1) = sub

\* s.replace(sub, ""), sub non-empty: leftmost non-overlapping occurrences
RECURSIVE remove(_, _)
remove(s, sub) ==
    IF s = << >> THEN << >>
    ELSE IF startswith(s, sub) THEN remove(SubSeq(s, Len(sub) + 1, Len(s)), sub)
    ELSE << Head(s) >> \o remove(Tail(s), sub)

\* "\n".join(lines)
RECURSIVE JoinLines(_)
JoinLines(ls) ==
    IF ls = << >> THEN << >>
    ELSE IF Len(ls) = 1 THEN ls[1]
    ELSE ls[1] \o << "\n" >> \o JoinLines(Tail(ls))

\* --------------------------------------------- ddg_client.py: the extractor
EN_PREFIX == << "EN:" >>
CN_PREFIX == << "CN:" >>
http == << "h", "t", "t", "p" >>

COMMON_TERMS_TO_FILTER == {
    << "t", "a", "b", "l", "e", "t", "o", "p", " ", "g", "a", "m", "e" >>,
    << "b", "o", "a", "r", "d", " ", "g", "a", "m", "e" >>,
    << "b", "o", "a", "r", "d", "g", "a", "m", "e" >>,
    << "c", "a", "r", "d", " ", "g", "a", "m", "e" >>,
    << "d", "i", "c", "e", " ", "g", "a", "m", "e" >>,
    << "p", "a", "r", "t", "y", " ", "g", "a", "m", "e" >>,
    << "s", "t", "r", "a", "t", "e", "g", "y", " ", "g", "a", "m", "e" >>,
    << "f", "a", "m", "i", "l", "y", " ", "g", "a", "m", "e" >>,
    << "g", "a", "m", "e" >>,
    << "t", "a", "b", "l", "e", "t", "o", "p" >>
}

\* ParseLines without the length test of line 115
RECURSIVE ParseLines_AnyLength(_, _)
ParseLines_AnyLength(lines, acc) ==
    IF lines = << >> THEN acc
    ELSE LET line == Head(lines)
             en_name == strip(remove(line, EN_PREFIX))
             en_name_lower == strip(lower(en_name))
             next ==
                 IF startswith(line, CN_PREFIX)
                 THEN [acc EXCEPT !.cn_name = strip(remove(line, CN_PREFIX))]
                 ELSE IF startswith(line, EN_PREFIX)
                           /\ en_name # << >>
                           /\ en_name_lower \notin COMMON_TERMS_TO_FILTER
                           /\ ~startswith(en_name_lower, http)
                 THEN [acc EXCEPT !.en_candidates = Append(@, en_name)]
                 ELSE acc
         IN  ParseLines_AnyLength(Tail(lines), next)

\* lines 106-118: one pass over the lines; acc = [cn_name, en_candidates]
RECURSIVE ParseLines(_, _)
ParseLines(lines, acc) ==
    IF lines = << >> THEN acc
    ELSE LET line == Head(lines)
             en_name == strip(remove(line, EN_PREFIX))
             en_name_lower == strip(lower(en_name))
             next ==
                 IF startswith(line, CN_PREFIX)
                 THEN [acc EXCEPT !.cn_name = strip(remove(line, CN_PREFIX))]
                 ELSE IF startswith(line, EN_PREFIX)
                           /\ en_name # << >>
                           /\ en_name_lower \notin COMMON_TERMS_TO_FILTER
                           /\ Len(en_name) >= 3
                           /\ ~startswith(en_name_lower, http)
                 THEN [acc EXCEPT !.en_candidates = Append(@, en_name)]
                 ELSE acc
         IN  ParseLines(Tail(lines), next)

\* Unique that keeps the last occurrence of a name
RECURSIVE Unique_KeepsLast(_, _)
Unique_KeepsLast(names, seen) ==
    IF names = << >> THEN << >>
    ELSE IF \E i \in 2..Len(names) : names[i] = Head(names)
    THEN Unique_KeepsLast(Tail(names), seen)
    ELSE << Head(names) >> \o Unique_KeepsLast(Tail(names), seen)

\* lines 123-128: de-duplication keeping the first occurrence
RECURSIVE Unique(_, _)
Unique(names, seen) ==
    IF names = << >> THEN << >>
    ELSE IF Head(names) \in seen THEN Unique(Tail(names), seen)
    ELSE << Head(names) >> \o Unique(Tail(names), seen \cup {Head(names)})

\* lines 39-51: the model the extractor uses; "unbound" when the loop binds none
RECURSIVE FirstOtherThan(_, _)
FirstOtherThan(models, excluded) ==
    IF models = << >> THEN "unbound"
    ELSE IF Head(models) # excluded THEN Head(models)
    ELSE FirstOtherThan(Tail(models), excluded)

ddg_model_config(models) ==
    IF \E i \in 1..Len(models) : models[i] = "utils" THEN "utils"
    ELSE FirstOtherThan(models, "replay")

Raise == [kind |-> "raise"]
Return(v) == [kind |-> "return", value |-> v]

\* the whole function; ddgs_ok: the web search returned, models: the available
\* model names in dict order, gen: what generate_with_model does
fetch_english_candidates_from_ddg(ddgs_ok, models, gen) ==
    IF ~ddgs_ok THEN Raise                                   \* line 21, 134-136
    ELSE IF models = << >> THEN Return(<< >>)                \* lines 35-37
    ELSE IF ddg_model_config(models) = "unbound" THEN Raise  \* line 79, 134-136
    ELSE IF gen.raises THEN Raise
    ELSE IF ~gen.success \/ strip(gen.llm_response) = << >> THEN Raise   \* 86-87
    ELSE LET lines == StripNonEmpty(split(gen.llm_response, "\n"))
             parsed == ParseLines(lines, [cn_name |-> << >>, en_candidates |-> << >>])
         IN  IF parsed.en_candidates = << >> THEN Raise      \* lines 120-121
             ELSE Return(<< Unique(parsed.en_candidates, {}), parsed.cn_name >>)

\* ------------------------------------- bgg_client.py: the structured client
\* lines 26 and 29-38; the en dash of the source is the one-character "ndash"
NON_PRIMARY_MARKERS == <<
    << "p", "r", "o", "m", "o" >>,
    << "e", "x", "p", "a", "n", "s", "i", "o", "n" >>,
    << "e", "x", "p", "." >>,
    << " ", "ndash", " " >>,
    << ":", " " >>,
    << " ", "-", " " >> >>

EDITION_SUFFIXES == <<
    << ":", " ", "s", "e", "c", "o", "n", "d", " ", "e", "d", "i", "t", "i", "o", "n" >>,
    << " ", "ndash", " ", "s", "e", "c", "o", "n", "d", " ", "e", "d", "i", "t", "i", "o", "n" >>,
    << ":", " ", "2", "n", "d", " ", "e", "d", "i", "t", "i", "o", "n" >>,
    << " ", "ndash", " ", "2", "n", "d", " ", "e", "d", "i", "t", "i", "o", "n" >>,
    << ":", " ", "3", "r", "d", " ", "e", "d", "i", "t", "i", "o", "n" >>,
    << " ", "ndash", " ", "3", "r", "d", " ", "e", "d", "i", "t", "i", "o", "n" >>,
    << " ", "(", "s", "e", "c", "o", "n", "d", " ", "e", "d", "i", "t", "i", "o", "n", ")" >>,
    << " ", "(", "3", "r", "d", " ", "e", "d", "i", "t", "i", "o", "n", ")" >> >>

\* lines 28-39: the suffixes are removed one after the other, in list order
RECURSIVE StripSuffixes(_, _)
StripSuffixes(s, suffixes) ==
    IF suffixes = << >> THEN s
    ELSE StripSuffixes(remove(s, Head(suffixes)), Tail(suffixes))

\* is_likely_primary with the edition bonus under the elif chain of the match:
\* it is given only when neither the exact nor the prefix bonus was
is_likely_primary_OneBonus(name, query) ==
    LET name_lower == lower(name)
        query_lower == lower(query)
        name_stripped == StripSuffixes(name_lower, EDITION_SUFFIXES)
        match == IF name_lower = query_lower THEN 100
                 ELSE IF startswith(name_lower, query_lower) THEN 80
                 ELSE IF startswith(name_stripped, query_lower) THEN 70
                 ELSE 0
        marker == IF \E i \in 1..Len(NON_PRIMARY_MARKERS) :
                        contains(name_lower, NON_PRIMARY_MARKERS[i])
                  THEN 50 ELSE 0
    IN  match - marker

is_likely_primary(name, query) ==
    LET name_lower == lower(name)
        query_lower == lower(query)
        match == IF name_lower = query_lower THEN 100
                 ELSE IF startswith(name_lower, query_lower) THEN 80
                 ELSE 0
        marker == IF \E i \in 1..Len(NON_PRIMARY_MARKERS) :
                        contains(name_lower, NON_PRIMARY_MARKERS[i])
                  THEN 50 ELSE 0
        name_stripped == StripSuffixes(name_lower, EDITION_SUFFIXES)
        edition == IF name_stripped = query_lower \/ startswith(name_stripped, query_lower)
                   THEN 70 ELSE 0
    IN  match - marker + edition

\* lines 49-57 and 67-75: the items with an id and a primary name, scored
RECURSIVE ScoreItems(_, _, _)
ScoreItems(items, query, source) ==
    IF items = << >> THEN << >>
    ELSE LET it == Head(items)
         IN  (IF it.id # << >> /\ it.name # << >>
              THEN << [id |-> it.id, name |-> it.name,
                       score |-> is_likely_primary(it.name, query), source |-> source] >>
              ELSE << >>)
             \o ScoreItems(Tail(items), query, source)

\* a malformed body raises ET.ParseError before any item is read
collect_from_api2(body, query) ==
    IF body.xml_ok THEN ScoreItems(body.items, query, "V2") ELSE << >>

collect_from_api1(body, query) ==
    IF body.xml_ok THEN ScoreItems(body.items, query, "V1") ELSE << >>

\* sorted(candidates, key=score, reverse=True): stable, descending
\* InsertByScore with the new item put before the items of its score
RECURSIVE InsertByScore_BeforeTies(_, _)
InsertByScore_BeforeTies(x, xs) ==
    IF xs = << >> THEN << x >>
    ELSE IF Head(xs).score > x.score
    THEN << Head(xs) >> \o InsertByScore_BeforeTies(x, Tail(xs))
    ELSE << x >> \o xs

RECURSIVE InsertByScore(_, _)
InsertByScore(x, xs) ==
    IF xs = << >> THEN << x >>
    ELSE IF Head(xs).score >= x.score THEN << Head(xs) >> \o InsertByScore(x, Tail(xs))
    ELSE << x >> \o xs

RECURSIVE sorted(_)
sorted(xs) ==
    IF xs = << >> THEN << >>
    ELSE InsertByScore(xs[Len(xs)], sorted(SubSeq(xs, 1, Len(xs) - 1)))

\* lines 92-109 and 152-169: the ranked list one search tier probes; empty on a
\* transport error, a non-200 status, a malformed body or no scorable item
RankedOfV2(resp, query) ==
    IF resp.exception \/ resp.status_code # 200 THEN << >>
    ELSE sorted(collect_from_api2(resp.body, query))

RankedOfV1(resp, query) ==
    IF resp.exception \/ resp.status_code # 200 THEN << >>
    ELSE sorted(collect_from_api1(resp.body, query))

BGG_ITEM_URL == << "h", "t", "t", "p", "s", ":", "/", "/", "b", "o", "a", "r", "d", "g", "a", "m", "e", "g", "e", "e", "k", ".", "c", "o", "m", "/", "b", "o", "a", "r", "d", "g", "a", "m", "e", "/" >>
UNKNOWN == << "U", "n", "k", "n", "o", "w", "n" >>
None == [kind |-> "None"]

DigitOf ==
    "0" :> 0 @@ "1" :> 1 @@ "2" :> 2 @@ "3" :> 3 @@ "4" :> 4 @@
    "5" :> 5 @@ "6" :> 6 @@ "7" :> 7 @@ "8" :> 8 @@ "9" :> 9

RECURSIVE ToNat(_)
ToNat(s) ==
    IF s = << >> THEN 0
    ELSE ToNat(SubSeq(s, 1, Len(s) - 1)) * 10 + DigitOf[s[Len(s)]]

\* int(s) of a str: blanks around it and one sign are allowed, then decimal
\* digits only; anything else is a ValueError
int(s) ==
    LET t == strip(s)
        signed == t # << >> /\ Head(t) \in {"+", "-"}
        digits == IF signed THEN Tail(t) ELSE t
    IN  IF digits = << >> \/ \E i \in 1..Len(digits) : digits[i] \notin DOMAIN DigitOf
        THEN Raise
        ELSE Return(IF signed /\ Head(t) = "-" THEN 0 - ToNat(digits) ELSE ToNat(digits))

\* BestNumplayers that takes a bucket whose count is not below the best so far
RECURSIVE BestNumplayers_LastOfTies(_, _, _)
BestNumplayers_LastOfTies(results, best_votes, best_numplayers) ==
    IF results = << >> THEN Return(best_numplayers)
    ELSE LET result_node == Head(results)
             numvotes == int(IF result_node.has_numvotes /\ result_node.numvotes # << >>
                             THEN result_node.numvotes ELSE << "0" >>)
         IN  IF ~result_node.has_best
             THEN BestNumplayers_LastOfTies(Tail(results), best_votes, best_numplayers)
             ELSE IF numvotes.kind = "raise" THEN Raise
             ELSE IF numvotes.value >= best_votes
             THEN BestNumplayers_LastOfTies(Tail(results), numvotes.value,
                                            result_node.numplayers)
             ELSE BestNumplayers_LastOfTies(Tail(results), best_votes, best_numplayers)

\* lines 264-272: the loop over the results of the suggested_numplayers poll
RECURSIVE BestNumplayers(_, _, _)
BestNumplayers(results, best_votes, best_numplayers) ==
    IF results = << >> THEN Return(best_numplayers)
    ELSE LET result_node == Head(results)
             numvotes == int(IF result_node.has_numvotes /\ result_node.numvotes # << >>
                             THEN result_node.numvotes ELSE << "0" >>)
         IN  IF ~result_node.has_best
             THEN BestNumplayers(Tail(results), best_votes, best_numplayers)
             ELSE IF numvotes.kind = "raise" THEN Raise
             ELSE IF numvotes.value > best_votes
             THEN BestNumplayers(Tail(results), numvotes.value, result_node.numplayers)
             ELSE BestNumplayers(Tail(results), best_votes, best_numplayers)

\* lines 261-263: "" without the poll
best_numplayers(body) ==
    IF body.poll.present THEN BestNumplayers(body.poll.results, 0, << >>)
    ELSE Return(<< >>)

\* bgg_thing_details_api without the except of lines 317-319
bgg_thing_details_api_Unguarded(game_id, resp) ==
    IF resp.exception THEN Raise
    ELSE IF resp.status_code # 200 THEN None
    ELSE IF ~resp.body.xml_ok THEN Raise
    ELSE IF ~resp.body.has_item THEN None
    ELSE IF best_numplayers(resp.body).kind = "raise" THEN Raise
    ELSE [kind |-> "dict",
          bgg_id |-> game_id,
          name |-> IF resp.body.has_name THEN resp.body.name ELSE UNKNOWN,
          bgg_url |-> BGG_ITEM_URL \o game_id,
          best_numplayers |-> best_numplayers(resp.body).value]

\* lines 213-319: None on a transport or parse exception, a non-200 status or a
\* body without a boardgame item; else the record of the requested id
bgg_thing_details_api(game_id, resp) ==
    IF resp.exception THEN None
    ELSE IF resp.status_code # 200 THEN None
    ELSE IF ~resp.body.xml_ok THEN None
    ELSE IF ~resp.body.has_item THEN None
    ELSE IF best_numplayers(resp.body).kind = "raise" THEN None
    ELSE [kind |-> "dict",
          bgg_id |-> game_id,
          name |-> IF resp.body.has_name THEN resp.body.name ELSE UNKNOWN,
          bgg_url |-> BGG_ITEM_URL \o game_id,
          best_numplayers |-> best_numplayers(resp.body).value]

\* ---------------------------------------- web_client.py: the scraping client
Digits == {"0", "1", "2", "3", "4", "5", "6", "7", "8", "9"}

\* str.isdigit()
isdigit(s) == s # << >> /\ \A i \in 1..Len(s) : s[i] \in Digits

IsLetter(c) == \E i \in 1..Len(Upper) : c = Upper[i] \/ c = Lowers[i]

UpperChar(c) ==
    IF \E i \in 1..Len(Lowers) : Lowers[i] = c
    THEN Upper[CHOOSE i \in 1..Len(Lowers) : Lowers[i] = c]
    ELSE c

\* str.title(): a letter is upper-cased after a non-letter, lower-cased after a letter
RECURSIVE TitleFrom(_, _)
TitleFrom(s, prev_cased) ==
    IF s = << >> THEN << >>
    ELSE LET c == Head(s)
         IN  << IF IsLetter(c) THEN (IF prev_cased THEN LowerChar(c) ELSE UpperChar(c))
                ELSE c >>
             \o TitleFrom(Tail(s), IsLetter(c))

title(s) == TitleFrom(s, FALSE)

\* s.replace("-", " ")
DashToSpace(s) == [i \in 1..Len(s) |-> IF s[i] = "-" THEN " " ELSE s[i]]

BGG_BASE_URL == << "h", "t", "t", "p", "s", ":", "/", "/", "b", "o", "a", "r", "d", "g", "a", "m", "e", "g", "e", "e", "k", ".", "c", "o", "m" >>

\* lines 32-36: the href is taken for a game-detail path
IsGameHref(href) ==
    /\ contains(href, << "/", "b", "o", "a", "r", "d", "g", "a", "m", "e", "/" >>)
    /\ ~contains(href, << "/", "b", "o", "a", "r", "d", "g", "a", "m", "e", "g", "a", "m", "e" >>)
    /\ ~contains(href, << "/", "b", "o", "a", "r", "d", "g", "a", "m", "e", "e", "x", "p", "a", "n", "s", "i", "o", "n" >>)

\* lines 37-47: the anchor the loop breaks on, as [id, name, url] before the
\* base url is prefixed; python parts[2] is parts[3] here
AnchorHit(a) ==
    LET parts == split(a.href, "/")
        text == strip(a.text)
    IN  [id |-> parts[3],
         name |-> IF text = << >> /\ Len(parts) > 3
                  THEN title(DashToSpace(parts[4])) ELSE text,
         url |-> a.href]

AnchorQualifies(a) ==
    /\ IsGameHref(a.href)
    /\ Len(split(a.href, "/")) >= 3
    /\ isdigit(split(a.href, "/")[3])

\* FirstGameLink that keeps scanning and takes the last qualifying anchor
RECURSIVE FirstGameLink_Last(_)
FirstGameLink_Last(anchors) ==
    IF anchors = << >> THEN None
    ELSE IF FirstGameLink_Last(Tail(anchors)) # None
    THEN FirstGameLink_Last(Tail(anchors))
    ELSE IF AnchorQualifies(Head(anchors))
    THEN [kind |-> "dict"] @@ AnchorHit(Head(anchors))
    ELSE None

\* lines 30-49: the first qualifying anchor in document order
RECURSIVE FirstGameLink(_)
FirstGameLink(anchors) ==
    IF anchors = << >> THEN None
    ELSE IF AnchorQualifies(Head(anchors))
    THEN [kind |-> "dict"] @@ AnchorHit(Head(anchors))
    ELSE FirstGameLink(Tail(anchors))

\* bgg_search_by_name without its try/except: the transport error leaves it
bgg_search_by_name_Unguarded(query, resp) ==
    IF resp.exception \/ resp.status_code >= 400 THEN Raise
    ELSE LET hit == FirstGameLink(resp.anchors)
         IN  IF hit = None THEN None
             ELSE [hit EXCEPT !.url = IF startswith(@, << "/" >>)
                                      THEN BGG_BASE_URL \o @ ELSE @]

\* lines 17-63: None on a transport error or an error status (raise_for_status)
\* and when no anchor qualifies
bgg_search_by_name(query, resp) ==
    IF resp.exception \/ resp.status_code >= 400 THEN None
    ELSE LET hit == FirstGameLink(resp.anchors)
         IN  IF hit = None \/ hit.url = << >> THEN None
             ELSE [hit EXCEPT !.url = IF startswith(@, << "/" >>)
                                      THEN BGG_BASE_URL \o @ ELSE @]

\* lines 72-166 of bgg_thing_details: None on a transport error, an error status,
\* a page without the preload script, or any exception while reading it
web_thing_details(game_url, resp, search_name) ==
    IF resp.exception \/ resp.status_code >= 400 THEN None
    ELSE IF ~resp.page.script_data THEN None
    ELSE IF resp.page.raises THEN None
    ELSE [kind |-> "dict",
          bgg_id |-> resp.page.objectid,
          name |-> IF resp.page.ld_name = << >> /\ search_name # << >>
                   THEN search_name ELSE resp.page.ld_name,
          bgg_url |-> game_url]

\* --------------------------------------------------- what the upstreams answer
Catan == << "C", "a", "t", "a", "n" >>
Azul == << "A", "z", "u", "l" >>

\* the names and ids a structured search response may carry
RawItems ==
    {[id |-> << "1" >>, name |-> << "a" >>],
     [id |-> << "2" >>, name |-> Catan],
     [id |-> << >>, name |-> Catan],
     [id |-> << "3" >>, name |-> << >>]}

NoBody == [xml_ok |-> FALSE, items |-> << >>]
SearchResponses ==
    {[exception |-> TRUE, status_code |-> 0, body |-> NoBody],
     [exception |-> FALSE, status_code |-> 500, body |-> NoBody],
     [exception |-> FALSE, status_code |-> 200, body |-> NoBody]}
    \cup {[exception |-> FALSE, status_code |-> 200,
           body |-> [xml_ok |-> TRUE, items |-> its]] : its \in SeqsUpTo(RawItems, MaxItems)}

NoPoll == [present |-> FALSE, results |-> << >>]
NoThing ==
    [xml_ok |-> FALSE, has_item |-> FALSE, has_name |-> FALSE, name |-> << >>,
     poll |-> NoPoll]
ThingResponses ==
    {[exception |-> TRUE, status_code |-> 0, body |-> NoThing],
     [exception |-> FALSE, status_code |-> 500, body |-> NoThing],
     [exception |-> FALSE, status_code |-> 200, body |-> NoThing],
     [exception |-> FALSE, status_code |-> 200, body |-> [NoThing EXCEPT !.xml_ok = TRUE]],
     [exception |-> FALSE, status_code |-> 200,
      body |-> [NoThing EXCEPT !.xml_ok = TRUE, !.has_item = TRUE]],
     [exception |-> FALSE, status_code |-> 200,
      body |-> [xml_ok |-> TRUE, has_item |-> TRUE, has_name |-> TRUE, name |-> Catan,
               poll |-> NoPoll]]}

\* the anchors a scraped search page may carry
Anchors ==
    {[href |-> << "/", "b", "o", "a", "r", "d", "g", "a", "m", "e", "/", "1", "3", "/", "c", "a", "t", "a", "n", "-", "j", "u", "n", "i", "o", "r" >>, text |-> << " ", "C", "a", "t", "a", "n", " " >>],
     [href |-> << "/", "b", "o", "a", "r", "d", "g", "a", "m", "e", "/", "1", "3", "/", "c", "a", "t", "a", "n", "-", "j", "u", "n", "i", "o", "r" >>, text |-> << >>],
     [href |-> << "/", "b", "o", "a", "r", "d", "g", "a", "m", "e", "/", "4", "2" >>, text |-> << >>],
     [href |-> << "/", "b", "o", "a", "r", "d", "g", "a", "m", "e", "/", "x", "1", "/", "f", "o", "o" >>, text |-> Azul],
     [href |-> << "/", "b", "o", "a", "r", "d", "g", "a", "m", "e", "e", "x", "p", "a", "n", "s", "i", "o", "n", "/", "7", "/", "x" >>, text |-> Azul],
     [href |-> << "/", "u", "s", "e", "r", "/", "b", "o", "b" >>, text |-> Azul]}

PageResponses ==
    {[exception |-> TRUE, status_code |-> 0, anchors |-> << >>],
     [exception |-> FALSE, status_code |-> 503, anchors |-> << >>]}
    \cup {[exception |-> FALSE, status_code |-> 200, anchors |-> as] :
            as \in SeqsUpTo(Anchors, MaxAnchors)}

NoPage == [script_data |-> FALSE, raises |-> FALSE, objectid |-> << >>, ld_name |-> << >>]
ItemPageResponses ==
    {[exception |-> TRUE, status_code |-> 0, page |-> NoPage],
     [exception |-> FALSE, status_code |-> 404, page |-> NoPage],
     [exception |-> FALSE, status_code |-> 200, page |-> NoPage],
     [exception |-> FALSE, status_code |-> 200,
      page |-> [NoPage EXCEPT !.script_data = TRUE, !.raises = TRUE]]}
    \cup {[exception |-> FALSE, status_code |-> 200,
           page |-> [script_data |-> TRUE, raises |-> FALSE,
                     objectid |-> << "1", "3" >>, ld_name |-> n]] : n \in {<< >>, Catan}}

\* the lines a language-model response may carry
ResponseLines ==
    {EN_PREFIX \o Catan,
     EN_PREFIX \o << " " >> \o Azul,
     EN_PREFIX \o << "G", "a", "m", "e" >>,
     EN_PREFIX \o << "a", "b" >>,
     EN_PREFIX \o << "h", "t", "t", "p", "x" >>,
     EN_PREFIX,
     CN_PREFIX \o << "ka", "tan" >>,
     Catan,
     << " " >>}

GenerateResults ==
    {[raises |-> TRUE, success |-> FALSE, llm_response |-> << >>],
     [raises |-> FALSE, success |-> FALSE, llm_response |-> << >>]}
    \cup {[raises |-> FALSE, success |-> TRUE, llm_response |-> JoinLines(ls)] :
            ls \in SeqsUpTo(ResponseLines, MaxLines)}

ModelNames == {"utils", "replay", "embedding", "chat"}
\* the available models, in dict order: no name twice
ModelLists ==
    {ms \in SeqsUpTo(ModelNames, MaxModels) :
        \A i, j \in 1..Len(ms) : i # j => ms[i] # ms[j]}

\* ----------------------------------------------------------- the alias store
Keys == {<< "shan", "wu" >>}
Queries == Keys \cup {<< "ka", "tan" >>}
\* the entries the store may hold: " ", "|", "a", "a|" and " a|b "
Entries == {<< " " >>, << "|" >>, << "a" >>, << "a", "|" >>,
            << " ", "a", "|", "b", " " >>}
\* alias.json as utils.load_alias reads it: a dict from Chinese name to entry
AliasStores == UNION {[D -> Entries] : D \in SUBSET Keys}

\* the store of a missing or empty file, as _load_json gives it
EmptyStore == CHOOSE d \in AliasStores : DOMAIN d = {}

\* dict.get(key, default) that never finds the key
Get_Missing(d, key, default) == default

\* dict.get(key, default)
Get(d, key, default) == IF key \in DOMAIN d THEN d[key] ELSE default

\* ------------------------------- bgg_client.py: resolve_boardgame_by_cn_name
VARIABLES
    alias,              \* the content of data/alias.json
    cn_name,            \* the query
    pc,                 \* where the resolver stands
    candidates,         \* the English names tried, in order
    from_alias,
    extracted_cn_name,
    qi,                 \* index of q in candidates, in the loop the resolver is in
    ranked,             \* bgg_search_api_by_name: the sorted candidates of the tier
    pi,                 \* index of cand in ranked
    game_id,
    search_result,
    final_query,
    client,             \* "none", "open" or "closed"
    result,             \* what the call returned or raised, None while it runs
    log,                \* the calls the resolver has awaited, in order
    searches,           \* bgg_search_api_by_name: the search requests of this call
    probes,             \* bgg_search_api_by_name: the detail probes of this tier
    run,                \* 0: one resolution; 1, 2: the first and the second of two
    inputs,             \* run 1: the responses consumed; run 2: those still to come
    first,              \* run 2: what the first resolution returned
    alias_file,         \* data/alias.json exists
    message,            \* the chat message the register command was offered last
    reply,              \* what its execute returned, None when it was not run
    loaded,             \* what load_alias_from_file gave it, None when not called
    scorer,             \* the last search body scored and ranked on its own
    call                \* one operation called on its own: its arguments, then what it returned

vars == << alias, cn_name, pc, candidates, from_alias, extracted_cn_name, qi, ranked,
           pi, game_id, search_result, final_query, client, result, log,
           searches, probes, run, inputs, first, alias_file, message, reply, loaded,
           scorer, call >>

\* the register command's own state
register == << alias_file, message, reply, loaded >>

\* what no step of a resolution changes
twin == << alias, cn_name, run, first, register, scorer, call >>

CIDIAN == "CIDIAN"
DDG_AI == "DDG+AI"

Exception == [kind |-> "exception"]

\* one entry per call the resolver awaits, appended when the call returns
Call(op, ok) == [op |-> op, qi |-> qi, ok |-> ok]

\* what the extractor's upstreams do in one call: the web search, the models the
\* host lists, the language model
ExtractorUpstreams ==
    [ddgs_ok : BOOLEAN, models : ModelLists, gen : GenerateResults]

\* the responses a pair of resolutions is run against
TwinExtractorUpstreams ==
    {u \in ExtractorUpstreams :
        /\ u.ddgs_ok
        /\ u.models = << "utils" >>
        /\ ~u.gen.raises
        /\ u.gen.llm_response \in {<< >>, EN_PREFIX \o Catan,
                                    JoinLines(<< EN_PREFIX \o Catan,
                                                 EN_PREFIX \o << " " >> \o Azul >>)}}

TwinSearchResponses ==
    {r \in SearchResponses :
        /\ ~r.exception
        /\ r.status_code = 200
             => r.body.items \in {<< [id |-> << "2" >>, name |-> Catan] >>,
                                  << [id |-> << "1" >>, name |-> << "a" >>],
                                     [id |-> << "2" >>, name |-> Catan] >>}}

TwinThingResponses ==
    {r \in ThingResponses : r.exception \/ (r.status_code = 200 /\ r.body.has_name)}

TwinPageResponses ==
    {r \in PageResponses :
        /\ ~r.exception
        /\ r.status_code = 200
             => /\ Len(r.anchors) = 1
                /\ AnchorQualifies(r.anchors[1])
                /\ r.anchors[1].text # << >>}

TwinItemPageResponses ==
    {r \in ItemPageResponses : r.status_code = 404 \/ r.page.ld_name # << >>}

\* the responses the call awaited at pc may get: any of the pool; for a pair of
\* resolutions, any of the pair's pool in the first and the same again in the second
Upstream(pool, twin_pool) ==
    IF run = 0 THEN pool
    ELSE IF run = 1 THEN twin_pool
    ELSE IF inputs # << >> /\ Head(inputs).at = pc THEN {Head(inputs).resp}
    ELSE {}

Consume(r) ==
    inputs' = IF run = 0 THEN inputs
              ELSE IF run = 1 THEN Append(inputs, [at |-> pc, resp |-> r])
              ELSE Tail(inputs)

\* lines 92-104 and 152-164: what one search request of a tier came to
SearchRequest(tier, query, resp) ==
    [tier |-> tier,
     query |-> query,
     outcome |-> IF resp.exception THEN "exception"
                 ELSE IF resp.status_code # 200 THEN "status"
                 ELSE IF ~resp.body.xml_ok THEN "parse_error"
                 ELSE IF ScoreItems(resp.body.items, query, tier) = << >> THEN "no_items"
                 ELSE "scored"]

\* ProbedId with the id of the top-ranked item for that of the item in turn
ProbedId_Top(rk, i) == rk[1].id

\* lines 116-117 and 176-177: the id the loop over the ranked items probes
ProbedId(rk, i) == rk[i].id

\* lines 122-123 and 182-183: one detail probe, for the id it asked about
Probe(tier, id, ok) == [tier |-> tier, id |-> id, ok |-> ok]

\* bgg_search_api_by_name has returned: the search requests it issued, in order
SearchCall(ok, ss) ==
    [op |-> "bgg_search_api_by_name", qi |-> qi, ok |-> ok,
     requests |-> [i \in 1..Len(ss) |-> [tier |-> ss[i].tier, query |-> ss[i].query]]]

Init ==
    /\ alias \in AliasStores
    /\ cn_name \in Queries
    /\ pc = "start"
    /\ candidates = << >>
    /\ from_alias = FALSE
    /\ extracted_cn_name = << >>
    /\ qi = 0
    /\ ranked = << >>
    /\ pi = 0
    /\ game_id = << >>
    /\ search_result = None
    /\ final_query = << >>
    /\ client = "none"
    /\ result = None
    /\ log = << >>
    /\ searches = << >>
    /\ probes = << >>
    /\ run = 0
    /\ inputs = << >>
    /\ first = None
    /\ alias_file \in BOOLEAN
    /\ ~alias_file => alias = EmptyStore
    /\ message = None
    /\ reply = None
    /\ loaded = None
    /\ scorer = None
    /\ call = None

\* an exception no handler of the resolver catches: the finally of lines 435-436
\* closes the client when there is one, and the exception leaves the resolver
Propagate ==
    /\ result' = Exception
    /\ client' = IF client = "open" THEN "closed" ELSE client
    /\ pc' = "done"

\* AliasRaw with the entry taken out of a dictionary kept between the calls
\* (dict.pop for dict.get): a second lookup of the name finds nothing
AliasRaw_Pop(alias_dict, name) ==
    IF run = 2 THEN << >> ELSE strip(Get(alias_dict, name, << >>))

\* lines 333-340: the candidates the dictionary gives
AliasRaw(alias_dict, name) == strip(Get(alias_dict, name, << >>))

\* AliasCandidates without the filter and the trim of the comprehension
AliasCandidates_KeepsEmpty(raw) == IF raw # << >> THEN split(raw, "|") ELSE << >>

AliasCandidates(raw) == IF raw # << >> THEN StripNonEmpty(split(raw, "|")) ELSE << >>

FromAlias(raw) == raw # << >>

\* lines 333-344 and, with candidates from the dictionary, 355-362
LookupAlias ==
    /\ pc = "start"
    /\ LET raw == AliasRaw(alias, cn_name)
           cands == AliasCandidates(raw)
       IN  /\ candidates' = cands
           /\ from_alias' = FromAlias(raw)
           /\ extracted_cn_name' = cn_name
           /\ IF cands = << >>
              THEN /\ pc' = "ddg"
                   /\ UNCHANGED << client, qi >>
              ELSE /\ pc' = "search_v2"
                   /\ client' = "open"
                   /\ qi' = 1
    /\ UNCHANGED << twin, ranked, pi, game_id, search_result, final_query,
                    result, log, searches, probes, inputs >>

\* lines 345-358: the extractor is awaited outside any try, its two values are
\* unpacked, and the candidates it returns are appended
ExtractFromDDG ==
    /\ pc = "ddg"
    /\ \E up \in Upstream(ExtractorUpstreams, TwinExtractorUpstreams) :
         LET r == fetch_english_candidates_from_ddg(up.ddgs_ok, up.models, up.gen)
         IN  /\ Consume(up)
             /\ log' = Append(log, Call("fetch_english_candidates_from_ddg",
                                        r.kind = "return" /\ Len(r.value) = 2))
             /\ IF r.kind = "raise" \/ Len(r.value) # 2
                THEN /\ Propagate
                     /\ UNCHANGED << candidates, extracted_cn_name, qi >>
                ELSE /\ candidates' = candidates \o r.value[1]
                     /\ extracted_cn_name' = r.value[2]
                     /\ IF candidates' = << >>
                        THEN /\ pc' = "done"
                             /\ result' = None
                             /\ UNCHANGED << client, qi >>
                        ELSE /\ pc' = "search_v2"
                             /\ client' = "open"
                             /\ qi' = 1
                             /\ UNCHANGED result
    /\ UNCHANGED << twin, from_alias, ranked, pi, game_id, search_result,
                    final_query, searches, probes >>

\* NextCandidate with the loop left after its first iteration
NextCandidate_LeavesLoop ==
    /\ qi' = 1
    /\ pc' = "web_search"
    /\ search_result' = None
    /\ final_query' = << >>

\* lines 363 and 378-386: the for loop takes the next candidate, or ends and the
\* resolver falls back to scraping
NextCandidate ==
    IF qi < Len(candidates)
    THEN /\ qi' = qi + 1
         /\ pc' = "search_v2"
         /\ UNCHANGED << search_result, final_query >>
    ELSE /\ qi' = 1
         /\ pc' = "web_search"
         /\ search_result' = None
         /\ final_query' = << >>

\* SearchV2 that reports no result as soon as V2 gives no scored item, without
\* asking V1
SearchV2_NoFallback ==
    /\ pc = "search_v2"
    /\ \E resp \in Upstream(SearchResponses, TwinSearchResponses) :
         /\ Consume(resp)
         /\ ranked' = RankedOfV2(resp, candidates[qi])
         /\ IF ranked' = << >>
            THEN /\ pi' = 0
                 /\ searches' = << >>
                 /\ NextCandidate
                 /\ log' = Append(log, SearchCall(FALSE,
                                 << SearchRequest("V2", candidates[qi], resp) >>))
            ELSE /\ pc' = "probe_v2"
                 /\ pi' = 1
                 /\ searches' = Append(searches, SearchRequest("V2", candidates[qi], resp))
                 /\ UNCHANGED << qi, search_result, final_query, log >>
    /\ UNCHANGED << twin, candidates, from_alias, extracted_cn_name,
                    game_id, client, result, probes >>

\* bgg_search_api_by_name, lines 80-109 and 132-139: the V2 search request
SearchV2 ==
    /\ pc = "search_v2"
    /\ \E resp \in Upstream(SearchResponses, TwinSearchResponses) :
         /\ Consume(resp)
         /\ ranked' = RankedOfV2(resp, candidates[qi])
         /\ searches' = Append(searches, SearchRequest("V2", candidates[qi], resp))
         /\ IF ranked' = << >>
            THEN pc' = "search_v1" /\ pi' = 0
            ELSE pc' = "probe_v2" /\ pi' = 1
    /\ UNCHANGED << twin, candidates, from_alias, extracted_cn_name, qi,
                    game_id, search_result, final_query, client, result, log, probes >>

\* lines 116-131 and 137-139: one detail probe of the V2 tier
ProbeV2 ==
    /\ pc = "probe_v2"
    /\ \E resp \in Upstream(ThingResponses, TwinThingResponses) :
         LET id == ProbedId(ranked, pi)
             details == bgg_thing_details_api(id, resp)
         IN  /\ Consume(resp)
             /\ IF details.kind = "dict"
                THEN /\ game_id' = id                           \* line 127
                     /\ pc' = "thing"
                     /\ probes' = Append(probes, Probe("V2", id, TRUE))
                     /\ log' = Append(log, SearchCall(TRUE, searches))
                     /\ UNCHANGED << ranked, pi >>
                ELSE /\ UNCHANGED << game_id, log >>
                     /\ IF details.kind # "raise" /\ pi < Len(ranked)
                        THEN /\ pc' = pc
                             /\ pi' = pi + 1
                             /\ probes' = Append(probes, Probe("V2", id, FALSE))
                             /\ UNCHANGED ranked
                        ELSE /\ pc' = "search_v1"
                             /\ pi' = 0
                             /\ ranked' = << >>
                             /\ probes' = << >>
    /\ UNCHANGED << twin, candidates, from_alias, extracted_cn_name, qi,
                    search_result, final_query, client, result, searches >>

\* lines 141-169 and 192-204: the V1 search request
SearchV1 ==
    /\ pc = "search_v1"
    /\ \E resp \in Upstream(SearchResponses, TwinSearchResponses) :
         /\ Consume(resp)
         /\ ranked' = RankedOfV1(resp, candidates[qi])
         /\ IF ranked' = << >>
            THEN /\ pi' = 0
                 /\ searches' = << >>
                 /\ NextCandidate                               \* return None
                 /\ log' = Append(log, SearchCall(FALSE,
                                 Append(searches, SearchRequest("V1", candidates[qi], resp))))
            ELSE /\ pc' = "probe_v1"
                 /\ pi' = 1
                 /\ searches' = Append(searches, SearchRequest("V1", candidates[qi], resp))
                 /\ UNCHANGED << qi, search_result, final_query, log >>
    /\ UNCHANGED << twin, candidates, from_alias, extracted_cn_name,
                    game_id, client, result, probes >>

\* lines 176-191 and 197-204: one detail probe of the V1 tier
ProbeV1 ==
    /\ pc = "probe_v1"
    /\ \E resp \in Upstream(ThingResponses, TwinThingResponses) :
         LET id == ProbedId(ranked, pi)
             details == bgg_thing_details_api(id, resp)
         IN  /\ Consume(resp)
             /\ IF details.kind = "dict"
                THEN /\ game_id' = id                           \* line 187
                     /\ pc' = "thing"
                     /\ probes' = Append(probes, Probe("V1", id, TRUE))
                     /\ log' = Append(log, SearchCall(TRUE, searches))
                     /\ UNCHANGED << ranked, pi, qi, search_result, final_query,
                                     searches >>
                ELSE /\ UNCHANGED game_id
                     /\ IF details.kind # "raise" /\ pi < Len(ranked)
                        THEN /\ pc' = pc
                             /\ pi' = pi + 1
                             /\ probes' = Append(probes, Probe("V1", id, FALSE))
                             /\ UNCHANGED << ranked, qi, search_result, final_query,
                                             log, searches >>
                        ELSE /\ pi' = 0
                             /\ ranked' = << >>
                             /\ probes' = << >>
                             /\ searches' = << >>
                             /\ NextCandidate                   \* return None
                             /\ log' = Append(log, SearchCall(FALSE, searches))
    /\ UNCHANGED << twin, candidates, from_alias, extracted_cn_name,
                    client, result >>

\* lines 369-374
ApiProvenance(alias_flag) ==
    [_source |-> IF alias_flag THEN "CIDIAN->BGG_API" ELSE "DDG+AI->BGG_API",
     _name_source |-> IF alias_flag THEN CIDIAN ELSE DDG_AI,
     _bgg_source |-> "BGG_API"]

\* ApiSuccess without the return of line 377: the record is kept and the loop goes on
ApiSuccess_NoReturn(details) ==
    /\ result' = details
                   @@ [_final_query |-> candidates[qi], cn_name |-> extracted_cn_name]
                   @@ ApiProvenance(from_alias)
    /\ UNCHANGED client
    /\ NextCandidate

\* ApiSuccess that records the first candidate as the final query
ApiSuccess_FirstQuery(details) ==
    /\ result' = details
                   @@ [_final_query |-> candidates[1], cn_name |-> extracted_cn_name]
                   @@ ApiProvenance(from_alias)
    /\ client' = "closed"
    /\ pc' = "done"
    /\ UNCHANGED << qi, search_result, final_query >>

\* ApiSuccess that returns the record and leaves the client open
ApiSuccess_LeavesOpen(details) ==
    /\ result' = details
                   @@ [_final_query |-> candidates[qi], cn_name |-> extracted_cn_name]
                   @@ ApiProvenance(from_alias)
    /\ UNCHANGED client
    /\ pc' = "done"
    /\ UNCHANGED << qi, search_result, final_query >>

\* lines 368-377 and the finally: the record is tagged and returned
ApiSuccess(details) ==
    /\ result' = details
                   @@ [_final_query |-> candidates[qi], cn_name |-> extracted_cn_name]
                   @@ ApiProvenance(from_alias)
    /\ client' = "closed"
    /\ pc' = "done"
    /\ UNCHANGED << qi, search_result, final_query >>

\* ThingDetails that, when its own fetch fails, returns a record of the id the
\* search's probe had fetched
ThingDetails_KeepsProbe ==
    /\ pc = "thing"
    /\ \E resp \in Upstream(ThingResponses, TwinThingResponses) :
         LET details == bgg_thing_details_api(game_id, resp)
         IN  /\ Consume(resp)
             /\ log' = Append(log, Call("bgg_thing_details_api", details.kind = "dict"))
             /\ IF details.kind = "dict"
                THEN ApiSuccess(details)
                ELSE ApiSuccess([kind |-> "dict", bgg_id |-> game_id, name |-> UNKNOWN,
                                 bgg_url |-> BGG_ITEM_URL \o game_id,
                                 best_numplayers |-> << >>])
    /\ ranked' = << >>
    /\ pi' = 0
    /\ searches' = << >>
    /\ probes' = << >>
    /\ UNCHANGED << twin, candidates, from_alias, extracted_cn_name, game_id >>

\* lines 366-381: the resolver's own detail fetch for the id the search returned
ThingDetails ==
    /\ pc = "thing"
    /\ \E resp \in Upstream(ThingResponses, TwinThingResponses) :
         LET details == bgg_thing_details_api(game_id, resp)
         IN  /\ Consume(resp)
             /\ log' = Append(log, Call("bgg_thing_details_api", details.kind = "dict"))
             /\ IF details.kind = "dict"
                THEN ApiSuccess(details)
                ELSE /\ NextCandidate                           \* lines 378-381
                     /\ UNCHANGED << client, result >>
    /\ ranked' = << >>
    /\ pi' = 0
    /\ searches' = << >>
    /\ probes' = << >>
    /\ UNCHANGED << twin, candidates, from_alias, extracted_cn_name, game_id >>

\* NoHitRecord named by the last candidate instead of the first
NoHitRecord_LastCandidate(cands, cn, alias_flag) ==
    [kind |-> "dict",
     name |-> IF cands # << >> THEN cands[Len(cands)] ELSE << >>,
     cn_name |-> cn,
     bgg_failed |-> TRUE,
     _source |-> IF alias_flag THEN "CIDIAN->JIN_LLM" ELSE "DDG+AI->JIN_LLM",
     _name_source |-> IF alias_flag THEN CIDIAN ELSE DDG_AI,
     _bgg_source |-> "JIN_LLM"]

\* lines 398-405
NoHitRecord(cands, cn, alias_flag) ==
    [kind |-> "dict",
     name |-> IF cands # << >> THEN cands[1] ELSE << >>,
     cn_name |-> cn,
     bgg_failed |-> TRUE,
     _source |-> IF alias_flag THEN "CIDIAN->JIN_LLM" ELSE "DDG+AI->JIN_LLM",
     _name_source |-> IF alias_flag THEN CIDIAN ELSE DDG_AI,
     _bgg_source |-> "JIN_LLM"]

\* lines 388-405 and the finally: one scraping search
WebSearch ==
    /\ pc = "web_search"
    /\ \E resp \in Upstream(PageResponses, TwinPageResponses) :
         LET hit == bgg_search_by_name(candidates[qi], resp)
         IN  /\ Consume(resp)
             /\ log' = Append(log, Call("bgg_search_by_name", hit.kind = "dict"))
             /\ IF hit.kind = "raise"
                THEN /\ Propagate
                     /\ UNCHANGED << qi, search_result, final_query >>
                ELSE IF hit.kind = "dict"
                THEN /\ search_result' = hit
                     /\ final_query' = candidates[qi]
                     /\ pc' = "web_detail"
                     /\ UNCHANGED << qi, client, result >>
                ELSE IF qi < Len(candidates)
                THEN /\ qi' = qi + 1
                     /\ UNCHANGED << pc, search_result, final_query, client, result >>
                ELSE /\ result' = NoHitRecord(candidates, extracted_cn_name, from_alias)
                     /\ client' = "closed"
                     /\ pc' = "done"
                     /\ UNCHANGED << qi, search_result, final_query >>
    /\ UNCHANGED << twin, candidates, from_alias, extracted_cn_name,
                    ranked, pi, game_id, searches, probes >>

\* ScrapedProvenance with the _source literal of the other scraping record
ScrapedProvenance_WrongLiteral(alias_flag) ==
    [_source |-> IF alias_flag THEN "CIDIAN->WANGYE_SOUSUO" ELSE "DDG+AI->WANGYE_SOUSUO",
     _name_source |-> IF alias_flag THEN CIDIAN ELSE DDG_AI,
     _bgg_source |-> "WANGYE_ZHUAQU"]

\* lines 415-420
ScrapedProvenance(alias_flag) ==
    [_source |-> IF alias_flag THEN "CIDIAN->WANGYE_ZHUAQU" ELSE "DDG+AI->WANGYE_ZHUAQU",
     _name_source |-> IF alias_flag THEN CIDIAN ELSE DDG_AI,
     _bgg_source |-> "WANGYE_ZHUAQU"]

\* HitOnlyRecord named by the Chinese name instead of the hit
HitOnlyRecord_WrongName(hit, cn, alias_flag) ==
    [kind |-> "dict",
     name |-> cn,
     bgg_id |-> hit.id,
     cn_name |-> cn,
     bgg_url |-> hit.url,
     bgg_failed |-> TRUE,
     _source |-> IF alias_flag THEN "CIDIAN->WANGYE_SOUSUO" ELSE "DDG+AI->WANGYE_SOUSUO",
     _name_source |-> IF alias_flag THEN CIDIAN ELSE DDG_AI,
     _bgg_source |-> "WANGYE_SOUSUO"]

\* lines 422-431
HitOnlyRecord(hit, cn, alias_flag) ==
    [kind |-> "dict",
     name |-> hit.name,
     bgg_id |-> hit.id,
     cn_name |-> cn,
     bgg_url |-> hit.url,
     bgg_failed |-> TRUE,
     _source |-> IF alias_flag THEN "CIDIAN->WANGYE_SOUSUO" ELSE "DDG+AI->WANGYE_SOUSUO",
     _name_source |-> IF alias_flag THEN CIDIAN ELSE DDG_AI,
     _bgg_source |-> "WANGYE_SOUSUO"]

\* WebDetail that goes on to the next candidate when the page fetch fails
WebDetail_TriesNext ==
    /\ pc = "web_detail"
    /\ \E resp \in Upstream(ItemPageResponses, TwinItemPageResponses) :
         LET details == web_thing_details(search_result.url, resp, search_result.name)
         IN  /\ Consume(resp)
             /\ log' = Append(log, Call("web_thing_details", details.kind = "dict"))
             /\ IF details.kind = "raise"
                THEN Propagate /\ UNCHANGED qi
                ELSE IF details.kind # "dict" /\ qi < Len(candidates)
                THEN /\ qi' = qi + 1
                     /\ pc' = "web_search"
                     /\ UNCHANGED << client, result >>
                ELSE /\ result' =
                          IF details.kind = "dict"
                          THEN details
                                 @@ [_final_query |-> final_query,
                                     cn_name |-> extracted_cn_name]
                                 @@ ScrapedProvenance(from_alias)
                          ELSE HitOnlyRecord(search_result, extracted_cn_name, from_alias)
                     /\ client' = "closed"
                     /\ pc' = "done"
                     /\ UNCHANGED qi
    /\ UNCHANGED << twin, candidates, from_alias, extracted_cn_name,
                    ranked, pi, game_id, search_result, final_query, searches, probes >>

\* lines 407-436: the scraped detail fetch, and the return
WebDetail ==
    /\ pc = "web_detail"
    /\ \E resp \in Upstream(ItemPageResponses, TwinItemPageResponses) :
         LET details == web_thing_details(search_result.url, resp, search_result.name)
         IN  /\ Consume(resp)
             /\ log' = Append(log, Call("web_thing_details", details.kind = "dict"))
             /\ IF details.kind = "raise"
                THEN Propagate
                ELSE /\ result' =
                          IF details.kind = "dict"
                          THEN details
                                 @@ [_final_query |-> final_query,
                                     cn_name |-> extracted_cn_name]
                                 @@ ScrapedProvenance(from_alias)
                          ELSE HitOnlyRecord(search_result, extracted_cn_name, from_alias)
                     /\ client' = "closed"
                     /\ pc' = "done"
    /\ UNCHANGED << twin, candidates, from_alias, extracted_cn_name, qi,
                    ranked, pi, game_id, search_result, final_query, searches, probes >>

Next ==
    \/ LookupAlias
    \/ ExtractFromDDG
    \/ SearchV2
    \/ ProbeV2
    \/ SearchV1
    \/ ProbeV1
    \/ ThingDetails
    \/ WebSearch
    \/ WebDetail

Spec == Init /\ [][Next]_vars

\* every awaited call returns: the requests carry timeouts of 15 and 20 seconds
FairSpec == Spec /\ WF_vars(Next)

\* ------------------------------------- register.py: BoardgameRegisterCommand
\* "/桌游登记", the literal command_pattern starts with
REGISTER_PREFIX == << "/", "zhuo", "you", "deng", "ji" >>
QINGKONG == << "qing", "kong" >>
\* line 83: "删除", "delete", "remove", "del"
DELETE_WORDS == {<< "shan1", "chu2" >>, << "d", "e", "l", "e", "t", "e" >>, << "r", "e", "m", "o", "v", "e" >>, << "d", "e", "l" >>}

Hanzi == {"shan", "wu", "ka", "tan", "zhuo", "you", "deng", "ji", "qing", "kong",
          "shan1", "chu2"}

\* str.isalnum() of one character
isalnum(c) == IsLetter(c) \/ c \in Digits \/ c \in Hanzi

\* line 65: command_pattern matched against the whole message; the groups of
\* the match, None when the message does not match.  After the prefix come
\* \s+, then [^/]+ (cn_name), then the only "/", then [^/]* (en_name): \s+ is
\* greedy and gives back one character when it would leave cn_name empty
MatchCommand(msg) ==
    LET rest == SubSeq(msg, Len(REGISTER_PREFIX) + 1, Len(msg))
        slash == FindChar(rest, "/", 1)
        before == SubSeq(rest, 1, slash - 1)
        after == SubSeq(rest, slash + 1, Len(rest))
        blanks == Len(before) - Len(lstrip(before))
        given == IF blanks = Len(before) THEN blanks - 1 ELSE blanks
    IN  IF \/ ~startswith(msg, REGISTER_PREFIX)
           \/ slash = 0
           \/ FindChar(after, "/", 1) # 0
           \/ Len(before) < 2
           \/ ~IsSpace(before[1])
        THEN None
        ELSE [kind |-> "match",
              cn_name |-> SubSeq(before, given + 1, Len(before)),
              en_name |-> after]

\* lines 27-36
load_alias_from_file == IF alias_file THEN alias ELSE EmptyStore

\* dict.pop(key) that empties the dict
Pop_All(d, key) == [k \in {} |-> d[k]]

\* dict.pop(key)
Pop(d, key) == [k \in DOMAIN d \ {key} |-> d[k]]

\* lines 15-24: the file is written whole; False when the write raises
save_alias(new_alias, io_ok) ==
    IF io_ok
    THEN alias' = new_alias /\ alias_file' = TRUE
    ELSE UNCHANGED << alias, alias_file >>

\* lines 39-51: True when the file was there and is removed
clear_alias_file(io_ok) ==
    IF alias_file /\ io_ok
    THEN alias' = EmptyStore /\ alias_file' = FALSE
    ELSE UNCHANGED << alias, alias_file >>

\* line 136 with the new pair merged into what was loaded
NewAlias_Merged(existing, cn, en) ==
    [k \in DOMAIN existing \cup {cn} |-> IF k = cn THEN en ELSE existing[k]]

\* line 136: new_alias = {cn_name: en_name}
NewAlias(existing, cn, en) == cn :> en

\* lines 67-149: execute, with the stripped groups of the match
Execute(cn, en, io_ok) ==
    IF cn = QINGKONG                                            \* lines 73-80
    THEN /\ clear_alias_file(io_ok)
         /\ reply' = Return(IF alias_file /\ io_ok THEN "SHUJU_YI_QINGKONG" ELSE "QINGKONG_SHIBAI")
         /\ loaded' = None
    ELSE IF lower(en) \in DELETE_WORDS                          \* lines 83-100
    THEN IF cn = << >>
         THEN /\ reply' = Return("SHANCHU_GESHI_CUOWU")
              /\ loaded' = None
              /\ UNCHANGED << alias, alias_file >>
         ELSE /\ loaded' = [kind |-> "dict", value |-> load_alias_from_file]
              /\ IF cn \in DOMAIN load_alias_from_file
                 THEN /\ save_alias(Pop(load_alias_from_file, cn), io_ok)
                      /\ reply' = Return(IF io_ok THEN "SHANCHU_CHENGGONG" ELSE "SHANCHU_SHIBAI")
                 ELSE /\ reply' = Return("JILU_BU_CUNZAI")
                      /\ UNCHANGED << alias, alias_file >>
    ELSE IF cn = << >> \/ en = << >>                            \* lines 103-109
    THEN /\ reply' = Return("GESHI_CUOWU")
         /\ loaded' = None
         /\ UNCHANGED << alias, alias_file >>
    ELSE IF ~\E i \in 1..Len(en) : isalnum(en[i])               \* lines 112-117
    THEN /\ reply' = Return("YINGWENMING_GESHI_CUOWU")
         /\ loaded' = None
         /\ UNCHANGED << alias, alias_file >>
    ELSE /\ loaded' = [kind |-> "dict", value |-> load_alias_from_file]
         /\ IF Get(load_alias_from_file, cn, << >>) # << >>     \* lines 125-133
            THEN /\ reply' = Return("JILU_YI_CUNZAI")
                 /\ UNCHANGED << alias, alias_file >>
            ELSE /\ save_alias(NewAlias(load_alias_from_file, cn, en), io_ok)
                 /\ reply' = Return(IF io_ok THEN "CHENGGONG_DENGJI" ELSE "BAOCUN_SHIBAI")

\* the messages the command is offered
Messages ==
    {REGISTER_PREFIX \o << " " >> \o QINGKONG,
     REGISTER_PREFIX \o << " " >> \o QINGKONG \o << "/" >>,
     REGISTER_PREFIX \o << " ", "shan", "wu", "/" >> \o Azul,
     REGISTER_PREFIX \o << " ", " ", "ka", "tan", " ", "/", " " >> \o Catan \o << " " >>,
     REGISTER_PREFIX \o << " ", "ka", "tan", "/", "a", "|", "b" >>,
     REGISTER_PREFIX \o << " ", "shan", "wu", "/", "shan1", "chu2" >>,
     REGISTER_PREFIX \o << " ", "ka", "tan", "/", "D", "e", "l" >>,
     REGISTER_PREFIX \o << " ", " ", "/", "d", "e", "l" >>,
     REGISTER_PREFIX \o << " ", "shan", "wu", "/" >>,
     REGISTER_PREFIX \o << " ", " ", "/" >> \o Azul,
     REGISTER_PREFIX \o << " ", "shan", "wu", "/", "-" >>,
     REGISTER_PREFIX \o << "shan", "wu", "/" >> \o Azul,
     REGISTER_PREFIX \o << " ", "shan", "wu", "/", "a", "/", "b" >>,
     << "/", "zhuo", "you", " ", "shan", "wu" >>}

\* the stores the command may find: keys "山屋" and "卡坦", an entry may be ""
RegisterKeys == {<< "shan", "wu" >>, << "ka", "tan" >>}
RegisterStores == UNION {[D -> {Catan, << >>}] : D \in SUBSET RegisterKeys}

RegisterInit ==
    /\ alias \in RegisterStores
    /\ alias_file \in BOOLEAN
    /\ ~alias_file => DOMAIN alias = {}
    /\ message = None
    /\ reply = None
    /\ loaded = None
    /\ cn_name = << >>
    /\ pc = "start"
    /\ candidates = << >>
    /\ from_alias = FALSE
    /\ extracted_cn_name = << >>
    /\ qi = 0
    /\ ranked = << >>
    /\ pi = 0
    /\ game_id = << >>
    /\ search_result = None
    /\ final_query = << >>
    /\ client = "none"
    /\ result = None
    /\ log = << >>
    /\ searches = << >>
    /\ probes = << >>
    /\ run = 0
    /\ inputs = << >>
    /\ first = None
    /\ scorer = None
    /\ call = None

\* what no step of the register command changes
resolution == << cn_name, pc, candidates, from_alias, extracted_cn_name, qi, ranked,
                 pi, game_id, search_result, final_query, client, result, log,
                 searches, probes, run, inputs, first >>

\* one message offered to the command: execute runs when the pattern matches
BoardgameRegisterCommand ==
    /\ \E msg \in Messages, io_ok \in BOOLEAN :
         LET matched_groups == MatchCommand(msg)
         IN  /\ message' = [kind |-> "str", value |-> msg]
             /\ IF matched_groups = None
                THEN /\ reply' = None
                     /\ loaded' = None
                     /\ UNCHANGED << alias, alias_file >>
                ELSE Execute(strip(matched_groups.cn_name),
                             strip(matched_groups.en_name), io_ok)
    /\ UNCHANGED << resolution, scorer, call >>

RegisterNext == BoardgameRegisterCommand

RegisterSpec == RegisterInit /\ [][RegisterNext]_vars

\* --------------------------------- the scoring and the ranking, on their own
MaxScored == 3      \* most items in a search body that is scored on its own

\* the primary names a search body may carry
ScorerNames ==
    {Catan,
     << "C", "A", "T", "A", "N" >>,
     << "C", "a", "t", "a", "n", " ", "J", "u", "n", "i", "o", "r" >>,
     << "C", "a", "t", "a", "n", ":", " ", "S", "e", "c", "o", "n", "d", " ", "E", "d", "i", "t", "i", "o", "n" >>,
     << "C", "a", "t", "a", "n", " ", "p", "r", "o", "m", "o" >>,
     Azul,
     << "a", " ", "(", "3", "r", "d", " ", "e", "d", "i", "t", "i", "o", "n", ")" >>,
     << "a", " ", "(", "3", "r", "d", " ", "e", "d", "i", "t", "i", "o", "n", ")", " ", "(", "3", "r", "d", " ", "(", "3", "r", "d", " ", "e", "d", "i", "t", "i", "o", "n", ")", " ", "e", "d", "i", "t", "i", "o", "n", ")" >>}

ScorerQueries == {Catan, << "a", " ", "(", "3", "r", "d", " ", "e", "d", "i", "t", "i", "o", "n", ")" >>}

\* the i-th item of a body gets the id i
IdOf(i) == << << "1", "2", "3", "4", "5", "6", "7", "8", "9" >>[i] >>

ScorerBodies ==
    {[xml_ok |-> TRUE,
      items |-> [i \in 1..Len(ns) |-> [id |-> IdOf(i), name |-> ns[i]]]] :
        ns \in SeqsUpTo(ScorerNames, MaxScored)}

ScorerInit ==
    /\ scorer \in [kind : {"input"}, tier : {"V2", "V1"}, query : ScorerQueries,
                   body : ScorerBodies]
    /\ call = None
    /\ alias = EmptyStore
    /\ alias_file = FALSE
    /\ message = None
    /\ reply = None
    /\ loaded = None
    /\ cn_name = << >>
    /\ pc = "start"
    /\ candidates = << >>
    /\ from_alias = FALSE
    /\ extracted_cn_name = << >>
    /\ qi = 0
    /\ ranked = << >>
    /\ pi = 0
    /\ game_id = << >>
    /\ search_result = None
    /\ final_query = << >>
    /\ client = "none"
    /\ result = None
    /\ log = << >>
    /\ searches = << >>
    /\ probes = << >>
    /\ run = 0
    /\ inputs = << >>
    /\ first = None

\* lines 102-109 and 162-169 on a 200 response: the items are collected and
\* scored, then sorted
ScoreAndRank ==
    /\ scorer.kind = "input"
    /\ LET resp == [exception |-> FALSE, status_code |-> 200, body |-> scorer.body]
       IN  scorer' =
             [kind |-> "ranking",
              tier |-> scorer.tier,
              query |-> scorer.query,
              scored |-> IF scorer.tier = "V2"
                         THEN collect_from_api2(scorer.body, scorer.query)
                         ELSE collect_from_api1(scorer.body, scorer.query),
              ranked |-> IF scorer.tier = "V2"
                         THEN RankedOfV2(resp, scorer.query)
                         ELSE RankedOfV1(resp, scorer.query)]
    /\ UNCHANGED << alias, register, resolution, call >>

ScorerNext == ScoreAndRank

ScorerSpec == ScorerInit /\ [][ScorerNext]_vars

\* ------------------------------------------- each operation, called on its own
MaxBuckets == 3

\* the numplayers attribute of the results of a poll, in poll order
PlayerCounts == << << "1" >>, << "2" >>, << "3" >>, << "4" >>, << "5", "+" >> >>

\* the result[@value='Best'] of one bucket: missing, without the numvotes
\* attribute, or with one
VoteOptions ==
    {[has_best |-> FALSE, has_numvotes |-> FALSE, numvotes |-> << >>],
     [has_best |-> TRUE, has_numvotes |-> FALSE, numvotes |-> << >>]}
    \cup {[has_best |-> TRUE, has_numvotes |-> TRUE, numvotes |-> v] :
            v \in {<< >>, << "0" >>, << "5" >>, << "9" >>, << "1", "2" >>, << "x" >>}}

Polls ==
    {NoPoll}
    \cup {[present |-> TRUE,
           results |-> [i \in 1..Len(vs) |-> [numplayers |-> PlayerCounts[i]] @@ vs[i]]] :
            vs \in SeqsUpTo(VoteOptions, MaxBuckets)}

PolledThingResponses ==
    ThingResponses
    \cup {[exception |-> FALSE, status_code |-> 200,
           body |-> [xml_ok |-> TRUE, has_item |-> TRUE, has_name |-> TRUE,
                     name |-> Catan, poll |-> p]] : p \in Polls}

Called(fn, args) == [kind |-> "call", fn |-> fn, state |-> "called", returned |-> None] @@ args

DetailCalls ==
    {Called("bgg_thing_details_api", [game_id |-> id, resp |-> r]) :
        id \in {<< "1", "3" >>, << "4", "2" >>}, r \in PolledThingResponses}

\* plugin.py lines 235-244: the model of the translation step of the command;
\* model_config stays None when the loop binds none
translate_model_config(models) ==
    IF \E i \in 1..Len(models) : models[i] = "utils" THEN "utils"
    ELSE IF FirstOtherThan(models, "embedding") = "unbound" THEN "None"
    ELSE FirstOtherThan(models, "embedding")

ModelCalls ==
    {Called("ddg_model_config", [models |-> ms]) : ms \in ModelLists \ {<< >>}}
    \cup {Called("translate_model_config", [models |-> ms]) : ms \in ModelLists}

\* the language model's answers the extractor is called with: up to one line
\* more than in a resolution
LongGenerateResults ==
    {[raises |-> TRUE, success |-> FALSE, llm_response |-> << >>],
     [raises |-> FALSE, success |-> FALSE, llm_response |-> << >>]}
    \cup {[raises |-> FALSE, success |-> TRUE, llm_response |-> JoinLines(ls)] :
            ls \in SeqsUpTo(ResponseLines, MaxLines + 1)}

ExtractorCalls ==
    {Called("fetch_english_candidates_from_ddg",
            [ddgs_ok |-> ok, models |-> ms, gen |-> g]) :
        ok \in BOOLEAN, ms \in {<< >>, << "utils" >>, << "replay" >>},
        g \in LongGenerateResults}

\* the search pages the scraping search is called with: the anchors of a
\* resolution, an absolute href and a path without the leading "/"
SearchPages ==
    {[exception |-> TRUE, status_code |-> 0, anchors |-> << >>],
     [exception |-> FALSE, status_code |-> 503, anchors |-> << >>]}
    \cup {[exception |-> FALSE, status_code |-> 200, anchors |-> as] :
            as \in SeqsUpTo(Anchors \cup
                              {[href |-> << "h", "t", "t", "p", "s", ":", "/", "/", "b", "o", "a", "r", "d", "g", "a", "m", "e", "g", "e", "e", "k", ".", "c", "o", "m", "/", "b", "o", "a", "r", "d", "g", "a", "m", "e", "/", "1", "3", "/", "c", "a", "t", "a", "n" >>,
                                text |-> Catan],
                               [href |-> << "x", "/", "b", "o", "a", "r", "d", "g", "a", "m", "e", "/", "7" >>, text |-> Azul]},
                            MaxAnchors)}

ScrapeCalls ==
    {Called("bgg_search_by_name", [query |-> Catan, resp |-> r]) : r \in SearchPages}

\* plugin.py lines 44-145: the content the tool returns, by its leading words;
\* resolved is what resolve_boardgame_by_cn_name did, awaited outside any try
BoardgameQueryTool_execute(query, resolved) ==
    IF strip(query) = << >> THEN Return("WEI_TIGONG_MINGCHENG")            \* 45-47
    ELSE IF resolved.kind = "raise" THEN Raise                              \* 52-56
    ELSE IF resolved = None THEN Return("WEI_ZHAODAO")                      \* 58-62
    ELSE IF "bgg_failed" \in DOMAIN resolved /\ resolved.bgg_failed
    THEN Return("ZHAODAO_DAN_WUFA_HUOQU")                                   \* 64-74
    ELSE Return("XINXI")                                                    \* 76-145

\* plugin.py lines 157-344: the message the command returns; line 177 calls
\* details.get on what the resolver returned
BoardgameCommand_execute(keyword, resolved) ==
    IF strip(keyword) = << >> THEN Return("WEI_TIGONG_GUANJIANCI")         \* 158-161
    ELSE IF resolved.kind = "raise" THEN Raise                              \* 170-175
    ELSE IF resolved = None THEN Raise                                      \* 177
    ELSE IF "bgg_failed" \in DOMAIN resolved /\ resolved.bgg_failed
    THEN Return("YI_TIQU_BGG_WEI_XIANGYING")                                \* 183-192
    ELSE Return("YI_CHAXUN")                                                \* 194-344

\* what a resolution hands to its caller: None, an exception, a failure record
\* or a game record
Resolutions ==
    {None, Raise,
     NoHitRecord(<< Catan >>, << "a" >>, FALSE),
     [kind |-> "dict", bgg_id |-> << "1", "3" >>, name |-> Catan,
      bgg_url |-> BGG_ITEM_URL \o << "1", "3" >>, best_numplayers |-> << "4" >>,
      _final_query |-> Catan, cn_name |-> << "a" >>] @@ ApiProvenance(TRUE)}

EntryCalls ==
    {Called(fn, [query |-> q, resolved |-> r]) :
        fn \in {"BoardgameQueryTool.execute", "BoardgameCommand.execute"},
        q \in {<< >>, << " ", "a", " " >>}, r \in Resolutions}

Calls == DetailCalls \cup ModelCalls \cup ExtractorCalls \cup ScrapeCalls
         \cup EntryCalls

CallInit ==
    /\ call \in Calls
    /\ scorer = None
    /\ alias = EmptyStore
    /\ alias_file = FALSE
    /\ message = None
    /\ reply = None
    /\ loaded = None
    /\ cn_name = << >>
    /\ pc = "start"
    /\ candidates = << >>
    /\ from_alias = FALSE
    /\ extracted_cn_name = << >>
    /\ qi = 0
    /\ ranked = << >>
    /\ pi = 0
    /\ game_id = << >>
    /\ search_result = None
    /\ final_query = << >>
    /\ client = "none"
    /\ result = None
    /\ log = << >>
    /\ searches = << >>
    /\ probes = << >>
    /\ run = 0
    /\ inputs = << >>
    /\ first = None

Calling(fn) == call.kind = "call" /\ call.fn = fn /\ call.state = "called"

Returns(v) ==
    /\ call' = [call EXCEPT !.state = "returned", !.returned = v]
    /\ UNCHANGED << alias, register, resolution, scorer >>

\* bgg_client.py lines 207-319
ThingDetailsApi ==
    /\ Calling("bgg_thing_details_api")
    /\ Returns(bgg_thing_details_api(call.game_id, call.resp))

\* ddg_client.py lines 39-51, reached with at least one model (line 35)
ExtractorModel ==
    /\ Calling("ddg_model_config")
    /\ Returns(Return(ddg_model_config(call.models)))

\* plugin.py lines 235-244
TranslatorModel ==
    /\ Calling("translate_model_config")
    /\ Returns(Return(translate_model_config(call.models)))

\* ddg_client.py lines 9-136
FetchEnglishCandidates ==
    /\ Calling("fetch_english_candidates_from_ddg")
    /\ Returns(fetch_english_candidates_from_ddg(call.ddgs_ok, call.models, call.gen))

\* web_client.py lines 12-63
BggSearchByName ==
    /\ Calling("bgg_search_by_name")
    /\ Returns(bgg_search_by_name(call.query, call.resp))

\* plugin.py lines 44-145
QueryToolExecute ==
    /\ Calling("BoardgameQueryTool.execute")
    /\ Returns(BoardgameQueryTool_execute(call.query, call.resolved))

\* plugin.py lines 157-344
CommandExecute ==
    /\ Calling("BoardgameCommand.execute")
    /\ Returns(BoardgameCommand_execute(call.query, call.resolved))

CallNext ==
    \/ ThingDetailsApi
    \/ ExtractorModel
    \/ TranslatorModel
    \/ FetchEnglishCandidates
    \/ BggSearchByName
    \/ QueryToolExecute
    \/ CommandExecute

CallSpec == CallInit /\ [][CallNext]_vars

\* ------------------------------------------- two resolutions of one query
\* the stores a pair of resolutions is run against: no entry, "|", " a|b "
TwinInit ==
    /\ alias \in {a \in AliasStores :
                    \A k \in DOMAIN a : a[k] \in {<< "|" >>, << " ", "a", "|", "b", " " >>}}
    /\ cn_name \in Keys
    /\ pc = "start"
    /\ candidates = << >>
    /\ from_alias = FALSE
    /\ extracted_cn_name = << >>
    /\ qi = 0
    /\ ranked = << >>
    /\ pi = 0
    /\ game_id = << >>
    /\ search_result = None
    /\ final_query = << >>
    /\ client = "none"
    /\ result = None
    /\ log = << >>
    /\ searches = << >>
    /\ probes = << >>
    /\ run = 1
    /\ inputs = << >>
    /\ first = None
    /\ alias_file = TRUE
    /\ message = None
    /\ reply = None
    /\ loaded = None
    /\ scorer = None
    /\ call = None

\* the resolver is called again for the same query: its locals are fresh, the
\* store is as it was and the upstreams answer as they did
Rerun ==
    /\ run = 1
    /\ pc = "done"
    /\ run' = 2
    /\ first' = result
    /\ pc' = "start"
    /\ candidates' = << >>
    /\ from_alias' = FALSE
    /\ extracted_cn_name' = << >>
    /\ qi' = 0
    /\ ranked' = << >>
    /\ pi' = 0
    /\ game_id' = << >>
    /\ search_result' = None
    /\ final_query' = << >>
    /\ client' = "none"
    /\ result' = None
    /\ log' = << >>
    /\ searches' = << >>
    /\ probes' = << >>
    /\ UNCHANGED << alias, cn_name, inputs, register, scorer, call >>

TwinNext == Next \/ Rerun

TwinSpec == TwinInit /\ [][TwinNext]_vars

\* ------------------------------------------------------------------ claims
Done == pc = "done"

IsFailureRecord(r) ==
    r.kind = "dict" /\ "bgg_failed" \in DOMAIN r /\ r.bgg_failed = TRUE

IsGameRecord(r) ==
    r.kind = "dict" /\ "bgg_failed" \notin DOMAIN r /\ "_final_query" \in DOMAIN r

\* the positions of the log at which op was awaited
CallsOf(op) == {i \in 1..Len(log) : log[i].op = op}

ScrapingOps == {"bgg_search_by_name", "web_thing_details"}

\* the structured attempt for candidate c has been made and has failed before
\* position i of the log: its search returned no id, or the detail fetch failed
ApiFailedBefore(c, i) ==
    \E j \in 1..(i - 1) :
        /\ log[j].qi = c
        /\ log[j].op \in {"bgg_search_api_by_name", "bgg_thing_details_api"}
        /\ ~log[j].ok

\* C1: with at least one candidate the resolver ends, whatever the catalog calls
\* do, and what it returns is a GameRecord or a FailureRecord, never an exception.
C1_ReturnsRecord ==
    /\ [](Done /\ candidates # << >>
             => IsGameRecord(result) \/ IsFailureRecord(result))
    /\ (candidates # << >>) ~> Done

C1_Witness ==
    /\ Done
    /\ Len(candidates) = 2
    /\ IsFailureRecord(result)
    /\ Len(log) >= 4
    /\ \A i \in 1..Len(log) : log[i].op = "fetch_english_candidates_from_ddg" \/ ~log[i].ok

\* C2: without a dictionary entry, a failed search+AI extraction makes the
\* resolver return None.
C2_ExtractionFailureReturnsNone ==
    (/\ Done
     /\ cn_name \notin DOMAIN alias
     /\ \E i \in CallsOf("fetch_english_candidates_from_ddg") : ~log[i].ok)
    => result = None

\* C3: every scraping call comes after the structured attempt was made and
\* failed for each candidate of the list.
C3_ScrapingAfterApiExhausted ==
    /\ \A i \in 1..Len(log) :
         log[i].op \in ScrapingOps
         => \A c \in 1..Len(candidates) : ApiFailedBefore(c, i)
    /\ pc \in {"web_search", "web_detail"}
         => \A c \in 1..Len(candidates) : ApiFailedBefore(c, Len(log) + 1)

C3_Witness ==
    /\ Len(candidates) = 2
    /\ \E i \in 1..Len(log) : log[i].op = "web_thing_details"
    /\ \E j \in 1..Len(log) : log[j].op = "bgg_thing_details_api" /\ log[j].qi = 1

\* C4: the structured searches are made for candidates 1, 2, ... in list order,
\* and the first successful detail fetch of the resolver ends the resolution:
\* nothing is called after it, and the record returned is tagged BGG_API and
\* carries that candidate as its final query.
ApiSearches == SelectSeq(log, LAMBDA e : e.op = "bgg_search_api_by_name")

C4_FirstUsableCandidateWins ==
    /\ \A k \in 1..Len(ApiSearches) : ApiSearches[k].qi = k
    /\ pc \in {"search_v2", "probe_v2", "search_v1", "probe_v1"}
         => qi = Len(ApiSearches) + 1
    /\ \A i \in CallsOf("bgg_thing_details_api") :
         log[i].ok
         => /\ i = Len(log)
            /\ Done
            /\ IsGameRecord(result)
            /\ result._bgg_source = "BGG_API"
            /\ result._final_query = candidates[log[i].qi]
            /\ \A c \in 1..(log[i].qi - 1) : ApiFailedBefore(c, i)
    /\ (Done /\ result.kind = "dict" /\ result._bgg_source = "BGG_API")
         => (Len(log) > 0 /\ log[Len(log)].op = "bgg_thing_details_api" /\ log[Len(log)].ok)

C4_Witness ==
    /\ Done
    /\ IsGameRecord(result)
    /\ result._bgg_source = "BGG_API"
    /\ Len(candidates) = 2
    /\ result._final_query = candidates[2]
    /\ candidates[1] # candidates[2]

\* C5: a query with a non-empty dictionary entry (here: not blank either) never
\* reaches the search+AI extraction, so its candidates are those of the entry.
C5_EntryShortCircuitsExtraction ==
    strip(Get(alias, cn_name, << >>)) # << >>
    => /\ pc # "ddg"
       /\ CallsOf("fetch_english_candidates_from_ddg") = {}

\* C6: name_source is the dictionary tag exactly when the candidates came from
\* the dictionary, and the search+AI tag exactly when the extractor gave them.
CandidatesFromExtractor ==
    \E i \in CallsOf("fetch_english_candidates_from_ddg") : log[i].ok

C6_NameSourceIsOrigin ==
    (Done /\ result.kind = "dict")
    => /\ result._name_source = CIDIAN <=> ~CandidatesFromExtractor
       /\ result._name_source = DDG_AI <=> CandidatesFromExtractor

\* C7: every FailureRecord has a non-empty name.
C7_FailureRecordHasName ==
    (Done /\ IsFailureRecord(result)) => result.name # << >>

\* C8: with no structured success and no scraping hit for any candidate, the
\* result is the FailureRecord tagged JIN_LLM that is named by the first candidate.
C8_NoHitFailureRecord ==
    (/\ Done
     /\ candidates # << >>
     /\ \A i \in 1..Len(log) :
          log[i].op \in {"bgg_thing_details_api", "bgg_search_by_name"} => ~log[i].ok)
    => /\ IsFailureRecord(result)
       /\ result._bgg_source = "JIN_LLM"
       /\ result.name = candidates[1]

C8_Witness ==
    /\ Done
    /\ Len(candidates) = 2
    /\ candidates[1] # candidates[2]
    /\ IsFailureRecord(result)
    /\ result._bgg_source = "JIN_LLM"
    /\ Cardinality(CallsOf("bgg_search_by_name")) = 2

\* C9: after a scraping hit, a failed page fetch gives the FailureRecord with the
\* id, name and url of the hit, and a successful one gives the GameRecord tagged
\* WANGYE_ZHUAQU.
C9_ScrapedDetailOutcome ==
    \A i \in CallsOf("web_thing_details") :
        /\ Done
        /\ search_result.kind = "dict"
        /\ IF log[i].ok
           THEN IsGameRecord(result) /\ result._bgg_source = "WANGYE_ZHUAQU"
           ELSE /\ IsFailureRecord(result)
                /\ result.bgg_id = search_result.id
                /\ result.name = search_result.name
                /\ result.bgg_url = search_result.url

C9_Witness ==
    /\ Done
    /\ IsFailureRecord(result)
    /\ \E i \in CallsOf("web_thing_details") : ~log[i].ok
    /\ result.name # << >>
    /\ result.name # candidates[1]
    /\ startswith(result.bgg_url, BGG_BASE_URL)

\* C10: the _source of every record returned is its _name_source, then the arrow,
\* then its _bgg_source.
C10_CompositeSource ==
    (Done /\ result.kind = "dict")
    => result._source = result._name_source \o "->" \o result._bgg_source

C10_Witness ==
    /\ Done
    /\ IsGameRecord(result)
    /\ result._source = "DDG+AI->WANGYE_ZHUAQU"
\* the segments of an entry split on "|", each trimmed
TrimmedSegments(entry) ==
    LET segs == split(entry, "|") IN [i \in 1..Len(segs) |-> strip(segs[i])]

NonEmptySegments(entry) == SelectSeq(TrimmedSegments(entry), LAMBDA x : x # << >>)

\* the resolver goes on with the candidates the dictionary gave
OnDictionaryPath ==
    /\ Get(alias, cn_name, << >>) # << >>
    /\ pc \notin {"start", "ddg"}
    /\ CallsOf("fetch_english_candidates_from_ddg") = {}

\* C12 as stated: on the dictionary path the candidate list is the sequence of
\* the trimmed segments of the entry split on "|", and the record carries the
\* query as its cn_name.
C12_CandidatesAreTrimmedSegments ==
    OnDictionaryPath
    => /\ candidates = TrimmedSegments(Get(alias, cn_name, << >>))
       /\ (Done /\ result.kind = "dict") => result.cn_name = cn_name

\* C12 amended: after the dictionary lookup of a non-empty entry the candidate
\* list is the sequence of the non-empty trimmed segments of the entry, in their
\* order; when there is such a segment these are the candidates the resolver
\* tries, and the record carries the query as its cn_name.
C12_CandidatesAreNonEmptySegments ==
    (pc # "start" /\ Get(alias, cn_name, << >>) # << >>)
    => LET segs == NonEmptySegments(Get(alias, cn_name, << >>))
       IN  /\ pc = "ddg" => candidates = << >> /\ segs = << >>
           /\ segs # << >>
                => /\ candidates = segs
                   /\ extracted_cn_name = cn_name
                   /\ (Done /\ result.kind = "dict") => result.cn_name = cn_name

C12_Witness ==
    /\ Done
    /\ Get(alias, cn_name, << >>) = << "a", "|" >>
    /\ candidates = << << "a" >> >>
    /\ result.kind = "dict"
    /\ result.cn_name = cn_name
\* the kind of terminal outcome and the two provenance tags of what was returned
Outcome(r) ==
    IF r.kind # "dict" THEN [kind |-> r.kind]
    ELSE [kind |-> IF IsFailureRecord(r) THEN "FailureRecord" ELSE "GameRecord",
          name_source |-> r._name_source,
          data_source |-> r._bgg_source]

LastCn == strip(MatchCommand(message.value).cn_name)
LastEn == strip(MatchCommand(message.value).en_name)

Replied(text) == reply = Return(text)

\* C13: after a successful add of (cn, en) for a name that had no entry, the
\* store holds cn -> en and none of the other keys it held before the add.
C13_AddOverwritesStore ==
    Replied("CHENGGONG_DENGJI")
    => /\ Get(loaded.value, LastCn, << >>) = << >>
       /\ alias_file
       /\ LastCn \in DOMAIN alias
       /\ alias[LastCn] = LastEn
       /\ \A k \in DOMAIN loaded.value \ {LastCn} : k \notin DOMAIN alias

C13_Witness ==
    /\ Replied("CHENGGONG_DENGJI")
    /\ DOMAIN loaded.value = {<< "shan", "wu" >>}
    /\ loaded.value[<< "shan", "wu" >>] = Catan
    /\ DOMAIN alias = {<< "ka", "tan" >>}
    /\ alias[<< "ka", "tan" >>] = Catan

\* the clear command as the class documents it: "/桌游登记 清空"
DocumentedClear == REGISTER_PREFIX \o << " " >> \o QINGKONG

\* C14: the documented clear command is accepted by the register command and
\* the alias store file is gone after it.
C14_DocumentedClearRemovesFile ==
    (message.kind = "str" /\ message.value = DocumentedClear)
    => /\ reply # None
       /\ ~alias_file
\* the V1 search request of the call under way is being made, or has been made
LegacyIssued == pc \in {"search_v1", "probe_v1"}

C16_LegacyAfterPrimaryFailure ==
    /\ pc = "search_v1"
         => /\ Len(searches) = 1
            /\ searches[1].tier = "V2"
            /\ searches[1].query = candidates[qi]
    /\ pc = "probe_v1"
         => /\ Len(searches) = 2
            /\ searches[1].tier = "V2"
            /\ searches[2].tier = "V1"
            /\ searches[2].query = searches[1].query
    /\ \A i \in CallsOf("bgg_search_api_by_name") :
         LET rq == log[i].requests
         IN  /\ rq[1] = [tier |-> "V2", query |-> candidates[log[i].qi]]
             /\ ~log[i].ok => Len(rq) = 2
             /\ Len(rq) = 2 => rq[2] = [tier |-> "V1", query |-> rq[1].query]
             /\ Len(rq) <= 2

C16_Witness ==
    /\ pc = "probe_v1"
    /\ searches[1].outcome = "status"
    /\ searches[2].outcome = "scored"
    /\ qi = 2
    /\ \E i \in CallsOf("bgg_search_api_by_name") : ~log[i].ok /\ log[i].qi = 1

\* xs is in descending order of score
Descending(xs) == \A i, j \in 1..Len(xs) : i < j => xs[i].score >= xs[j].score

\* C17: within a tier the detail probes follow the ranked order, score
\* descending; the search returns the id of the first ranked item whose detail
\* fetch succeeds: every item ranked before it was probed and failed, and no
\* item ranked after it is probed.
C17_ProbesInRankedOrder ==
    /\ pc \in {"probe_v2", "probe_v1"}
         => /\ Descending(ranked)
            /\ Len(probes) = pi - 1
            /\ pi <= Len(ranked)
            /\ \A k \in 1..Len(probes) : probes[k].id = ranked[k].id /\ ~probes[k].ok
    /\ pc = "thing"
         => /\ Descending(ranked)
            /\ Len(probes) = pi
            /\ pi <= Len(ranked)
            /\ \A k \in 1..Len(probes) :
                 /\ probes[k].id = ranked[k].id
                 /\ probes[k].ok <=> k = pi
            /\ game_id = ranked[pi].id
            /\ log[Len(log)].op = "bgg_search_api_by_name" /\ log[Len(log)].ok

C17_Witness ==
    /\ pc = "thing"
    /\ Len(ranked) = 2
    /\ ranked[1].score > ranked[2].score
    /\ ranked[1].id # ranked[2].id
    /\ game_id = ranked[2].id
    /\ ~probes[1].ok
    /\ probes[2].tier = "V1"
\* r is s sorted by score, descending, and stable: some one-to-one placing of
\* the items of s gives r and keeps the items of equal score in their order
StableDescendingSort(r, s) ==
    /\ Len(r) = Len(s)
    /\ Descending(r)
    /\ \E p \in [1..Len(s) -> 1..Len(s)] :
         /\ \A i, j \in 1..Len(s) : i # j => p[i] # p[j]
         /\ \A i \in 1..Len(s) : r[i] = s[p[i]]
         /\ \A i, j \in 1..Len(s) : (i < j /\ r[i].score = r[j].score) => p[i] < p[j]

\* C18: the ranked list of a tier is a permutation of the scored items, sorted
\* by score descending, in which items of equal score keep the order they had
\* in the search response.
C18_RankingIsStableSort ==
    scorer.kind = "ranking" => StableDescendingSort(scorer.ranked, scorer.scored)

C18_Witness ==
    /\ scorer.kind = "ranking"
    /\ Len(scorer.scored) = 3
    /\ scorer.scored[1].score < scorer.scored[2].score
    /\ scorer.scored[2].score = scorer.scored[3].score
    /\ scorer.scored[2].name # scorer.scored[3].name
    /\ scorer.ranked = << scorer.scored[2], scorer.scored[3], scorer.scored[1] >>

\* the three rules of the score, each on its own
ExactBonus(name, query) == lower(name) = lower(query)
PrefixBonus(name, query) == startswith(lower(name), lower(query))
MarkerPenalty(name) ==
    \E i \in 1..Len(NON_PRIMARY_MARKERS) : contains(lower(name), NON_PRIMARY_MARKERS[i])
EditionBonus(name, query) ==
    startswith(StripSuffixes(lower(name), EDITION_SUFFIXES), lower(query))

\* C19: the score is 100 for an exact match, else 80 for a prefix match, else 0;
\* minus 50 when the name has a non-primary marker; plus 70 when the name with
\* the edition suffixes stripped equals or starts with the query, whatever the
\* other two rules gave.
C19_ScoreIsSumOfRules ==
    scorer.kind = "ranking"
    => \A i \in 1..Len(scorer.scored) :
         LET name == scorer.scored[i].name
             query == scorer.query
         IN  scorer.scored[i].score =
                 (IF ExactBonus(name, query) THEN 100
                  ELSE IF PrefixBonus(name, query) THEN 80 ELSE 0)
               - (IF MarkerPenalty(name) THEN 50 ELSE 0)
               + (IF EditionBonus(name, query) THEN 70 ELSE 0)

C19_Witness ==
    /\ scorer.kind = "ranking"
    /\ Len(scorer.scored) = 3
    /\ scorer.scored[1].score = 170
    /\ scorer.scored[2].score = 100
    /\ MarkerPenalty(scorer.scored[2].name)
    /\ scorer.scored[3].score = 0

\* C20: a name equal to the query scores strictly higher than a name of which
\* the query is a proper prefix, and is ranked before it.
C20_ExactOutranksPrefix ==
    scorer.kind = "ranking"
    => \A i, j \in 1..Len(scorer.ranked) :
         (/\ ExactBonus(scorer.ranked[i].name, scorer.query)
          /\ PrefixBonus(scorer.ranked[j].name, scorer.query)
          /\ ~ExactBonus(scorer.ranked[j].name, scorer.query))
         => /\ scorer.ranked[i].score > scorer.ranked[j].score
            /\ i < j
\* C21: the scraping searches go through the candidates in list order and stop at
\* the first hit; at most one item page is fetched in a resolution, for that hit,
\* and nothing is searched or fetched after it, whether it succeeds or fails.
C21_ScrapingStopsAtFirstHit ==
    /\ \A i \in CallsOf("bgg_search_by_name") :
          /\ log[i].qi = Cardinality({j \in CallsOf("bgg_search_by_name") : j <= i})
          /\ log[i].ok => \A j \in CallsOf("bgg_search_by_name") : j <= i
    /\ Cardinality(CallsOf("web_thing_details")) <= 1
    /\ \A i \in CallsOf("web_thing_details") :
          /\ i = Len(log)
          /\ i > 1
          /\ log[i - 1].op = "bgg_search_by_name"
          /\ log[i - 1].ok
          /\ log[i].qi = log[i - 1].qi
          /\ final_query = candidates[log[i].qi]

C21_Witness ==
    /\ Done
    /\ Len(candidates) = 2
    /\ Cardinality(CallsOf("bgg_search_by_name")) = 1
    /\ \E i \in CallsOf("web_thing_details") : ~log[i].ok /\ log[i].qi = 1
    /\ IsFailureRecord(result)
Returned(fn) == call.kind = "call" /\ call.fn = fn /\ call.state = "returned"

\* the votes text of a bucket, as line 269 reads it
VotesText(result_node) ==
    IF result_node.has_numvotes /\ result_node.numvotes # << >>
    THEN result_node.numvotes ELSE << "0" >>

\* some Best count of the poll is not a number
UnparsablePoll(poll) ==
    \E i \in 1..Len(poll.results) :
        poll.results[i].has_best /\ int(VotesText(poll.results[i])).kind = "raise"

\* C22: the Detail operation of the structured client never raises: it returns
\* None on a transport error, a status other than 200, a body that does not parse
\* or has no boardgame item, and otherwise the record of the requested id.
C22_DetailNeverRaises ==
    Returned("bgg_thing_details_api")
    => LET resp == call.resp
           absent == \/ resp.exception
                     \/ resp.status_code # 200
                     \/ ~resp.body.xml_ok
                     \/ ~resp.body.has_item
                     \/ UnparsablePoll(resp.body.poll)
       IN  /\ call.returned.kind # "raise"
           /\ absent => call.returned = None
           /\ ~absent => /\ call.returned.kind = "dict"
                         /\ call.returned.bgg_id = call.game_id
                         /\ call.returned.bgg_url = BGG_ITEM_URL \o call.game_id

C22_Witness ==
    /\ Returned("bgg_thing_details_api")
    /\ call.returned = None
    /\ ~call.resp.exception
    /\ call.resp.status_code = 200
    /\ call.resp.body.has_item
    /\ UnparsablePoll(call.resp.body.poll)
\* C23: without a model named "utils", neither the extractor nor the translation
\* step of the command falls back to a model named "replay" or "embedding".
C23_FallbackSkipsReplayAndEmbedding ==
    (/\ Returned("ddg_model_config") \/ Returned("translate_model_config")
     /\ \A i \in 1..Len(call.models) : call.models[i] # "utils")
    => call.returned.value \notin {"replay", "embedding"}
\* the non-blank lines of the response the extractor was called with, trimmed
ResponseLinesOf(c) == StripNonEmpty(split(c.gen.llm_response, "\n"))

\* the name a line starting with the English prefix gives
NameOf(line) == strip(remove(line, EN_PREFIX))

\* the line starts with the English prefix and its name passes the filter
Passes(line) ==
    /\ startswith(line, EN_PREFIX)
    /\ lower(NameOf(line)) \notin COMMON_TERMS_TO_FILTER
    /\ Len(NameOf(line)) >= 3
    /\ ~startswith(lower(NameOf(line)), http)

\* the call got an answer of the language model to filter (line 89 was reached)
Answered(c) ==
    /\ c.ddgs_ok
    /\ c.models # << >>
    /\ ddg_model_config(c.models) # "unbound"
    /\ ~c.gen.raises
    /\ c.gen.success
    /\ strip(c.gen.llm_response) # << >>

FirstLineOf(name, lines) ==
    CHOOSE k \in 1..Len(lines) :
        /\ Passes(lines[k]) /\ NameOf(lines[k]) = name
        /\ \A j \in 1..(k - 1) : ~(Passes(lines[j]) /\ NameOf(lines[j]) = name)

\* C25: the candidate list the extraction step returns has no name twice, holds
\* every accepted name, and orders the names by their first accepted line in the
\* language model's answer.
C25_UniqueInFirstOccurrenceOrder ==
    (Returned("fetch_english_candidates_from_ddg") /\ call.returned.kind = "return"
     /\ call.models # << >>)
    => LET lines == ResponseLinesOf(call)
           names == call.returned.value[1]
       IN  /\ \A i, j \in 1..Len(names) : i # j => names[i] # names[j]
           /\ {names[i] : i \in 1..Len(names)}
                = {NameOf(lines[k]) : k \in {k \in 1..Len(lines) : Passes(lines[k])}}
           /\ \A i, j \in 1..Len(names) :
                i < j => FirstLineOf(names[i], lines) < FirstLineOf(names[j], lines)

C25_Witness ==
    /\ Returned("fetch_english_candidates_from_ddg")
    /\ call.returned.kind = "return"
    /\ call.models # << >>
    /\ Len(ResponseLinesOf(call)) = 3
    /\ \A k \in 1..3 : Passes(ResponseLinesOf(call)[k])
    /\ NameOf(ResponseLinesOf(call)[1]) = NameOf(ResponseLinesOf(call)[3])
    /\ NameOf(ResponseLinesOf(call)[1]) # NameOf(ResponseLinesOf(call)[2])
    /\ call.returned.value[1]
         = << NameOf(ResponseLinesOf(call)[1]), NameOf(ResponseLinesOf(call)[2]) >>
\* the buckets of the poll with the highest Best count, when that is positive
TopBuckets(poll) ==
    LET Best == {i \in 1..Len(poll.results) : poll.results[i].has_best}
        Votes(i) == int(VotesText(poll.results[i])).value
    IN  {i \in Best : Votes(i) > 0 /\ \A j \in Best : Votes(j) <= Votes(i)}

\* C26: best_numplayers of a detail record is the numplayers of the bucket of the
\* suggested_numplayers poll with the highest Best count, the first such bucket
\* in poll order when several tie, and empty when no bucket has a positive count.
C26_BestPlayerCount ==
    (/\ Returned("bgg_thing_details_api")
     /\ call.returned.kind = "dict"
     /\ call.resp.body.poll.present)
    => LET poll == call.resp.body.poll
           top == TopBuckets(poll)
       IN  IF top = {}
           THEN call.returned.best_numplayers = << >>
           ELSE call.returned.best_numplayers
                  = poll.results[CHOOSE i \in top : \A j \in top : i <= j].numplayers

C26_Witness ==
    /\ Returned("bgg_thing_details_api")
    /\ call.returned.kind = "dict"
    /\ call.resp.body.poll.present
    /\ TopBuckets(call.resp.body.poll) = {2, 3}
    /\ int(VotesText(call.resp.body.poll.results[1])).value = 9
    /\ call.returned.best_numplayers = PlayerCounts[2]
\* the id segment of an href: the third of its parts between "/", which is the id
\* of a site path /boardgame/<id>/<slug>
IdSegment(href) == IF Len(split(href, "/")) >= 3 THEN split(href, "/")[3] ELSE << >>

\* the href is a game-detail path, not an expansion path, with a numeric id segment
GameDetailHref(href) ==
    /\ contains(href, << "/", "b", "o", "a", "r", "d", "g", "a", "m", "e", "/" >>)
    /\ ~contains(href, << "/", "b", "o", "a", "r", "d", "g", "a", "m", "e", "e", "x", "p", "a", "n", "s", "i", "o", "n" >>)
    /\ IdSegment(href) # << >>
    /\ \A i \in 1..Len(IdSegment(href)) : IdSegment(href)[i] \in Digits

Executed ==
    /\ message.kind = "str"
    /\ MatchCommand(message.value) # None
    /\ LastCn # QINGKONG

IsDeleteCommand == Executed /\ LastCn # << >> /\ lower(LastEn) \in DELETE_WORDS

IsAddCommand ==
    /\ Executed
    /\ LastCn # << >>
    /\ lower(LastEn) \notin DELETE_WORDS
    /\ \E i \in 1..Len(LastEn) : isalnum(LastEn[i])

C30_AddNeverOverwrites ==
    (/\ IsAddCommand
     /\ loaded.kind = "dict"
     /\ LastCn \in DOMAIN loaded.value
     /\ loaded.value[LastCn] # << >>)
    => /\ Replied("JILU_YI_CUNZAI")
       /\ alias = loaded.value
       /\ alias_file

C30_Witness ==
    /\ IsAddCommand
    /\ Replied("JILU_YI_CUNZAI")
    /\ loaded.value[LastCn] = Catan
    /\ LastEn = Azul
    /\ alias = loaded.value
IsApiRecord(r) == IsGameRecord(r) /\ r._bgg_source = "BGG_API"

\* C31: a record tagged BGG_API comes from the detail fetch the resolver makes
\* itself, right after the structured search of the same candidate returned the
\* id; when that fetch fails nothing is returned for the candidate: the resolver
\* goes on with the next candidate or with the scraping fallback.
C31_RecordFromSecondFetch ==
    /\ \A i \in CallsOf("bgg_thing_details_api") :
          /\ i > 1
          /\ log[i - 1].op = "bgg_search_api_by_name"
          /\ log[i - 1].ok
          /\ log[i - 1].qi = log[i].qi
          /\ log[i].ok => /\ i = Len(log)
                          /\ Done
                          /\ IsApiRecord(result)
                          /\ result.bgg_id = game_id
                          /\ result._final_query = candidates[log[i].qi]
          /\ ~log[i].ok =>
                IF i = Len(log)
                THEN /\ ~Done
                     /\ result = None
                     /\ IF log[i].qi < Len(candidates)
                        THEN qi = log[i].qi + 1 /\ pc \in {"search_v2", "probe_v2",
                                                           "search_v1", "probe_v1"}
                        ELSE qi = 1 /\ pc = "web_search"
                ELSE \/ /\ log[i + 1].op = "bgg_search_api_by_name"
                        /\ log[i + 1].qi = log[i].qi + 1
                     \/ /\ log[i + 1].op = "bgg_search_by_name"
                        /\ log[i].qi = Len(candidates)
    /\ (Done /\ IsApiRecord(result))
       => /\ log # << >>
          /\ log[Len(log)].op = "bgg_thing_details_api"
          /\ log[Len(log)].ok

C31_Witness ==
    /\ Done
    /\ Len(candidates) = 2
    /\ IsApiRecord(result)
    /\ result._final_query = candidates[2]
    /\ \E i \in CallsOf("bgg_thing_details_api") : ~log[i].ok /\ log[i].qi = 1
\* C32: the _final_query of a game record is one of the candidates: for a record
\* tagged BGG_API the candidate whose structured search returned the id of the
\* record, for a scraped record the first candidate in list order whose scraping
\* search returned a hit.
C32_FinalQueryIsTheHitCandidate ==
    (Done /\ IsGameRecord(result))
    => \E k \in 1..Len(candidates) :
          /\ result._final_query = candidates[k]
          /\ IF result._bgg_source = "BGG_API"
             THEN /\ Len(log) >= 2
                  /\ log[Len(log) - 1].op = "bgg_search_api_by_name"
                  /\ log[Len(log) - 1].ok
                  /\ log[Len(log) - 1].qi = k
                  /\ result.bgg_id = game_id
                  /\ \A i \in CallsOf("bgg_search_api_by_name") :
                        i < Len(log) - 1 => log[i].qi < k
             ELSE /\ result._bgg_source = "WANGYE_ZHUAQU"
                  /\ \E i \in CallsOf("bgg_search_by_name") : log[i].ok /\ log[i].qi = k
                  /\ \A j \in 1..(k - 1) :
                        \E i \in CallsOf("bgg_search_by_name") : ~log[i].ok /\ log[i].qi = j
                  /\ \A i \in CallsOf("bgg_search_by_name") : log[i].ok => log[i].qi = k

C32_Witness ==
    /\ Done
    /\ IsApiRecord(result)
    /\ Len(candidates) = 2
    /\ candidates[1] # candidates[2]
    /\ result._final_query = candidates[2]
    /\ \A i \in CallsOf("bgg_thing_details_api") : log[i].ok
\* the client exists from line 358 on, that is, once the candidates are known
\* and there is at least one
ClientCreated == pc \notin {"start", "ddg"} /\ candidates # << >>

\* C33: once the resolver has created its client, the client is open until the
\* resolver ends and closed when it ends, whatever it returns; it is closed by
\* the step that ends the resolver and by no other, and after the close no
\* request is made and the client is not opened again.
C33_ClientClosedOnce ==
    /\ [](/\ ~ClientCreated => client = "none"
          /\ (ClientCreated /\ ~Done) => client = "open"
          /\ (ClientCreated /\ Done) => /\ client = "closed"
                                        /\ result.kind \in {"dict", "exception"})
    /\ [][/\ client' # client
             => \/ client = "none" /\ client' = "open" /\ pc' = "search_v2"
                \/ client = "open" /\ client' = "closed" /\ pc' = "done"
          /\ client = "closed"
             => /\ client' = "closed"
                /\ log' = log /\ searches' = searches /\ probes' = probes]_vars

C33_Witness ==
    /\ Done
    /\ client = "closed"
    /\ IsFailureRecord(result)
    /\ result._bgg_source = "WANGYE_SOUSUO"
    /\ Cardinality(CallsOf("bgg_search_api_by_name")) = 2

====
